---------------------------- MODULE Spec2Model ----------------------------
(***************************************************************************)
(* Model of the DokuWiki JSON-RPC client of the dokuwiki-manager plugin:   *)
(*   src/auth.js          Transport (createJsonRpcClient.call)             *)
(*   src/apiClient.js     Facade Client (call, pageExists, mediaExists)    *)
(*   src/errorHandler.js  Error Enrichment (handleApiError,                *)
(*                        getRecoverySuggestion)                           *)
(*                                                                         *)
(* Text is modelled as a sequence of tokens: a JavaScript string is the    *)
(* concatenation of its tokens, String.prototype.includes is the           *)
(* contiguous-subsequence test, and template literals are concatenation.   *)
(* The phrases the code searches for ('DokuWiki API error',                *)
(* 'Authentication failed', 'DokuWiki') are tokens of every text that      *)
(* contains them.  An optional value (a property that may be undefined, a  *)
(* result that may be null) is the empty set or a singleton.               *)
(* The request id (Date.now()) is not modelled: nothing reads it.          *)
(***************************************************************************)
EXTENDS Integers, Sequences, FiniteSets, TLC

VARIABLES calls, last, errIn, errOut, sugOut, objOut, setIn, hdrOut, client,
          ctor, info

\* errIn, errOut, sugOut: an error handed to the error handler and what
\* handleApiError and getRecoverySuggestion returned for it.
\* objOut: the error objects that exist after the facade's catch block
\* has handled errIn, and which of them it throws.
enrichVars == <<errIn, errOut, sugOut, objOut>>

\* setIn, hdrOut: a settings object handed to getAuthHeaders and what it
\* returned or threw.
authVars == <<setIn, hdrOut>>

\* ctor: the run of createJsonRpcClient or createApiClient that builds the
\* client; client: the client it has returned to the caller, if any.
createVars == <<client, ctor>>

\* info: the invocation of getWikiInfo on the constructed client.
infoVars == <<info>>

\* Everything but the invocations of a constructed client.
otherVars == <<enrichVars, authVars, createVars, infoVars>>

vars == <<calls, last, otherVars>>

(* ------------------------------ bounds --------------------------------- *)

MaxCalls == 1

Slots == 1..MaxCalls

(* ------------------------------- text ---------------------------------- *)

\* String.prototype.includes on token sequences.
Includes(s, sub) ==
    \E i \in 1..(Len(s) + 1) :
        /\ i + Len(sub) - 1 <= Len(s)
        /\ SubSeq(s, i, i + Len(sub) - 1) = sub

None == {}

Some(x) == {x}

The(o) == CHOOSE x \in o : TRUE

(* --------------------------- errorHandler.js --------------------------- *)

\* An Error object: message, optional code, optional originalMessage.
MkError(message, code) ==
    [message |-> message, code |-> code, originalMessage |-> None]

TableCodes ==
    {0, 111, 121, 131, 132, 133, 134, 211, 212, 221, 231, 232, 233, 234,
     235, 236, 401, 403, 500, 1000, 1001, 1002}

ERROR_MESSAGES ==
    [c \in TableCodes |->
        CASE c = 0    -> <<"Success">>
          [] c = 111  -> <<"You are not allowed to read this page">>
          [] c = 121  -> <<"The requested page (revision) does not exist">>
          [] c = 131  -> <<"Empty or invalid page ID given">>
          [] c = 132  -> <<"Refusing to write an empty new wiki page">>
          [] c = 133  -> <<"The page is currently locked">>
          [] c = 134  -> <<"The page content was blocked">>
          [] c = 211  -> <<"You are not allowed to read this media file">>
          [] c = 212  -> <<"You are not allowed to delete this media file">>
          [] c = 221  -> <<"The requested media file (revision) does not exist">>
          [] c = 231  -> <<"Empty or invalid media ID given">>
          [] c = 232  -> <<"Media file is still referenced">>
          [] c = 233  -> <<"Failed to delete media file">>
          [] c = 234  -> <<"Invalid base64 encoded data">>
          [] c = 235  -> <<"Empty file given">>
          [] c = 236  -> <<"Failed to save media">>
          [] c = 401  -> <<"Authentication failed", ". Please check your credentials">>
          [] c = 403  -> <<"Insufficient permissions to perform this operation">>
          [] c = 500  -> <<"Server error occurred. Please try again later">>
          [] c = 1000 -> <<"Unable to connect to the ", "DokuWiki", " server">>
          [] c = 1001 -> <<"Network error when connecting to server">>
          [] c = 1002 -> <<"Timeout when connecting to server">>]

\* !error.code : the code is undefined or 0.
NoCodeGiven(error) == error.code = None \/ error.code = Some(0)

\* `${ERROR_MESSAGES[error.code]} (Code: ${error.code})`
FriendlyMessage(c) == ERROR_MESSAGES[c] \o <<" (Code: ", ToString(c), ")">>

\* error.originalMessage && !enhancedError.message.includes(error.originalMessage)
PreservesOriginal(error, friendly) ==
    /\ error.originalMessage # None
    /\ The(error.originalMessage) # <<>>
    /\ ~Includes(friendly, The(error.originalMessage))

\* Variant: a code without a table entry gets a generic description.
EnhancedMessageGeneric(error) ==
    LET c == The(error.code)
    IN  IF c \in DOMAIN ERROR_MESSAGES
        THEN IF PreservesOriginal(error, FriendlyMessage(c))
             THEN FriendlyMessage(c) \o <<" - ">> \o The(error.originalMessage)
             ELSE FriendlyMessage(c)
        ELSE <<"Unknown error", " (Code: ", ToString(c), ")">>

EnhancedMessage(error) ==
    LET c == The(error.code)
        friendly == FriendlyMessage(c)
    IN  IF c \in DOMAIN ERROR_MESSAGES
        THEN IF PreservesOriginal(error, friendly)
             THEN friendly \o <<" - ">> \o The(error.originalMessage)
             ELSE friendly
        ELSE error.message

\* Variant: the clone does not carry the code.
handleApiErrorNoCode(error) ==
    IF NoCodeGiven(error)
    THEN error
    ELSE [message         |-> EnhancedMessage(error),
          code            |-> None,
          originalMessage |-> Some(error.message)]

handleApiError(error) ==
    IF NoCodeGiven(error)
    THEN error
    ELSE [message         |-> EnhancedMessage(error),
          code            |-> error.code,
          originalMessage |-> Some(error.message)]

AuthSuggestion ==
    <<"Check your username and password in plugin settings. Make sure you have the correct authentication method selected.">>

PermissionSuggestion ==
    <<"Your account doesn't have sufficient permissions. Contact your wiki administrator for access.">>

ConnectionSuggestion ==
    <<"Check your network connection and verify that the ", "DokuWiki",
      " URL is correct in plugin settings.">>

LockedSuggestion ==
    <<"The page is currently being edited by another user. Try again later.">>

ServerSuggestion ==
    <<"The server is experiencing issues. Please try again later or contact your wiki administrator.">>

\* Variant: the server range has no upper end.
getRecoverySuggestionOpenRange(error) ==
    IF NoCodeGiven(error) THEN None
    ELSE LET c == The(error.code)
         IN  IF c = 401 \/ Includes(error.message, <<"Authentication failed">>)
                 THEN Some(AuthSuggestion)
             ELSE IF c = 403 \/ c = 111 \/ c = 212
                 THEN Some(PermissionSuggestion)
             ELSE IF c >= 1000 /\ c < 2000
                 THEN Some(ConnectionSuggestion)
             ELSE IF c = 133
                 THEN Some(LockedSuggestion)
             ELSE IF c >= 500
                 THEN Some(ServerSuggestion)
             ELSE None

\* Variant: only the code is looked at for the authentication suggestion.
getRecoverySuggestionCodeOnly(error) ==
    IF NoCodeGiven(error) THEN None
    ELSE LET c == The(error.code)
         IN  IF c = 401
                 THEN Some(AuthSuggestion)
             ELSE IF c = 403 \/ c = 111 \/ c = 212
                 THEN Some(PermissionSuggestion)
             ELSE IF c >= 1000 /\ c < 2000
                 THEN Some(ConnectionSuggestion)
             ELSE IF c = 133
                 THEN Some(LockedSuggestion)
             ELSE IF c >= 500 /\ c < 600
                 THEN Some(ServerSuggestion)
             ELSE None

\* Variant: the connection range is closed at 2000 and open at 1000.
getRecoverySuggestionShiftedRange(error) ==
    IF NoCodeGiven(error) THEN None
    ELSE LET c == The(error.code)
         IN  IF c = 401 \/ Includes(error.message, <<"Authentication failed">>)
                 THEN Some(AuthSuggestion)
             ELSE IF c = 403 \/ c = 111 \/ c = 212
                 THEN Some(PermissionSuggestion)
             ELSE IF c > 1000 /\ c <= 2000
                 THEN Some(ConnectionSuggestion)
             ELSE IF c = 133
                 THEN Some(LockedSuggestion)
             ELSE IF c >= 500 /\ c < 600
                 THEN Some(ServerSuggestion)
             ELSE None

getRecoverySuggestion(error) ==
    IF NoCodeGiven(error) THEN None
    ELSE LET c == The(error.code)
         IN  IF c = 401 \/ Includes(error.message, <<"Authentication failed">>)
                 THEN Some(AuthSuggestion)
             ELSE IF c = 403 \/ c = 111 \/ c = 212
                 THEN Some(PermissionSuggestion)
             ELSE IF c >= 1000 /\ c < 2000
                 THEN Some(ConnectionSuggestion)
             ELSE IF c = 133
                 THEN Some(LockedSuggestion)
             ELSE IF c >= 500 /\ c < 600
                 THEN Some(ServerSuggestion)
             ELSE None

(* ------------------------------ inputs --------------------------------- *)

\* Values of the JSON-RPC "result" field, as JSON text; "undefined" stands
\* for a body without the field.
Results == {"null", "\"\"", "{}", "\"Test Wiki\"", "undefined"}

ServerCodes == {0, 121, 221, 401, 500, 9999}

ServerMessages ==
    {<<"Test error">>, <<>>, <<"Authentication failed">>,
     <<"The page is currently locked">>}

\* The "error" field of a JSON-RPC body: missing, null, or an object.
NoErrorField == [tag |-> "absent", code |-> 0, message |-> <<>>]

NullErrorField == [tag |-> "null", code |-> 0, message |-> <<>>]

ErrorFields ==
    {NoErrorField, NullErrorField} \cup
    [tag : {"object"}, code : ServerCodes, message : ServerMessages]

Statuses == {200, 404, 500}

Bodies == {<<"Not Found">>, <<>>}

NetworkFailures == {<<"Network error">>, <<"Failed to fetch">>}

\* What fetch() can produce for one request:
\*   "reject"      fetch rejects (no response), message = text
\*   "http"        a response with the given status; text is the body read
\*                 by response.text(), json the body parsed by
\*                 response.json()
\*   "unparsable"  a response with the given status whose body is not JSON:
\*                 response.json() rejects with message = text
NoJson == [result |-> "undefined", error |-> NoErrorField]

Responses ==
    [kind : {"reject"}, status : {0}, text : NetworkFailures, json : {NoJson}]
    \cup
    [kind : {"http"}, status : Statuses \ {200}, text : Bodies, json : {NoJson}]
    \cup
    [kind : {"unparsable"}, status : {200},
     text : {<<"Unexpected token < in JSON">>}, json : {NoJson}]
    \cup
    [kind : {"http"}, status : {200}, text : {<<>>},
     json : [result : Results, error : {NoErrorField, NullErrorField}]]
    \cup
    [kind : {"http"}, status : {200}, text : {<<>>},
     json : [result : {"null", "\"Test Wiki\""},
             error : ErrorFields \ {NoErrorField, NullErrorField}]]

Methods == {"core.getWikiTitle", "core.getPage"}

Ids == {"start", "wiki:logo.png"}

ParamSets == {{}, {<<"page", "start">>}}

(* ------------------------------- auth.js ------------------------------- *)

\* What a call resolves to: a returned value or a thrown Error.
NoError == MkError(<<>>, None)

Return(v) == [kind |-> "return", value |-> v, err |-> NoError]

Throw(e) == [kind |-> "throw", value |-> "undefined", err |-> e]

\* A transport: the baseUrl and headers of the object createJsonRpcClient
\* builds.
NoClient == [baseUrl |-> <<>>, headers |-> {}]

\* fetch(this.baseUrl, {method: 'POST', headers: this.headers,
\*       body: JSON.stringify({jsonrpc, id, method, params})})
RpcRequest(c, method, params) ==
    [httpMethod |-> "POST", url |-> c.baseUrl, headers |-> c.headers,
     jsonrpc |-> "2.0", method |-> method, params |-> params]

\* response.ok
ResponseOk(resp) == resp.status >= 200 /\ resp.status <= 299

\* Variant: the body text is left out of the message.
HttpErrorStatusOnly(resp) ==
    MkError(<<"HTTP error ", ToString(resp.status)>>, None)

\* Variant: the error carries the HTTP status as its code.
HttpErrorCoded(resp) ==
    MkError(<<"HTTP error ", ToString(resp.status), ": ">> \o resp.text,
            Some(resp.status))

\* new Error(`HTTP error ${response.status}: ${errorText}`)
HttpError(resp) ==
    MkError(<<"HTTP error ", ToString(resp.status), ": ">> \o resp.text, None)

\* Variant: if (result.error && result.error.code)
HasRpcErrorCode(json) == json.error.tag = "object" /\ json.error.code # 0

\* if (result.error)
HasRpcError(json) == json.error.tag = "object"

\* new Error(result.error.message) with error.code = result.error.code
RpcError(json) == MkError(json.error.message, Some(json.error.code))

\* Variant: return result.result || null
RpcResultOrNull(json) ==
    IF json.result \in {"\"\"", "undefined"} THEN "null" ELSE json.result

\* return result.result
RpcResult(json) == json.result

\* Variant: an error without a code is given the synthetic network code.
WithContextCoded(method, error) ==
    [message |-> IF ~Includes(error.message, <<"DokuWiki", " API error">>)
                 THEN <<"DokuWiki", " API error", " calling ", method, ": ">>
                      \o error.message
                 ELSE error.message,
     code |-> IF error.code = None THEN Some(1001) ELSE error.code,
     originalMessage |-> error.originalMessage]

\* The catch block of call: the context prefix is put on the caught error.
WithContext(method, error) ==
    IF ~Includes(error.message, <<"DokuWiki", " API error">>)
    THEN [error EXCEPT !.message =
             <<"DokuWiki", " API error", " calling ", method, ": ">> \o @]
    ELSE error

\* createJsonRpcClient(...).call once fetch has settled with resp.
TransportCall(method, resp) ==
    IF resp.kind = "reject"
        THEN Throw(WithContext(method, MkError(resp.text, None)))
    ELSE IF ~ResponseOk(resp)
        THEN Throw(WithContext(method, HttpError(resp)))
    ELSE IF resp.kind = "unparsable"
        THEN Throw(WithContext(method, MkError(resp.text, None)))
    ELSE IF HasRpcError(resp.json)
        THEN Throw(WithContext(method, RpcError(resp.json)))
    ELSE Return(RpcResult(resp.json))

(* ----------------------- auth.js: getAuthHeaders ----------------------- *)

\* A credential is a sequence of characters; a character is a one-letter
\* string, and "U+20AC" stands for the euro sign, a character above U+00FF.
CharCode(ch) ==
    CASE ch = ":" -> 58
      [] ch = "a" -> 97
      [] ch = "p" -> 112
      [] ch = "u" -> 117
      [] ch = "U+20AC" -> 8364

Base64Alphabet ==
    <<"A", "B", "C", "D", "E", "F", "G", "H",
      "I", "J", "K", "L", "M", "N", "O", "P",
      "Q", "R", "S", "T", "U", "V", "W", "X",
      "Y", "Z", "a", "b", "c", "d", "e", "f",
      "g", "h", "i", "j", "k", "l", "m", "n",
      "o", "p", "q", "r", "s", "t", "u", "v",
      "w", "x", "y", "z", "0", "1", "2", "3",
      "4", "5", "6", "7", "8", "9", "+", "/">>

RECURSIVE Base64Encode(_)
\* Standard base64 of a sequence of bytes, with '=' padding.
Base64Encode(bytes) ==
    IF Len(bytes) = 0 THEN <<>>
    ELSE IF Len(bytes) = 1 THEN
        LET n == bytes[1] * 16
        IN  <<Base64Alphabet[(n \div 64) + 1], Base64Alphabet[(n % 64) + 1],
              "=", "=">>
    ELSE IF Len(bytes) = 2 THEN
        LET n == (bytes[1] * 256 + bytes[2]) * 4
        IN  <<Base64Alphabet[(n \div 4096) + 1],
              Base64Alphabet[((n \div 64) % 64) + 1],
              Base64Alphabet[(n % 64) + 1], "=">>
    ELSE
        LET n == bytes[1] * 65536 + bytes[2] * 256 + bytes[3]
        IN  <<Base64Alphabet[(n \div 262144) + 1],
              Base64Alphabet[((n \div 4096) % 64) + 1],
              Base64Alphabet[((n \div 64) % 64) + 1],
              Base64Alphabet[(n % 64) + 1]>>
            \o Base64Encode(SubSeq(bytes, 4, Len(bytes)))

\* btoa accepts only characters up to U+00FF (one byte each).
BtoaAccepts(str) == \A i \in 1..Len(str) : CharCode(str[i]) <= 255

btoa(str) == Base64Encode([i \in 1..Len(str) |-> CharCode(str[i])])

\* The DOMException btoa throws for a character above U+00FF; its legacy
\* code is INVALID_CHARACTER_ERR.
InvalidCharacterError ==
    MkError(<<"The string to be encoded contains characters outside of the Latin1 range.">>,
            Some(5))

\* !value for an optional string: undefined, null or empty.
Missing(opt) == opt = None \/ The(opt) = <<>>

\* !userSettings.authMethod
MissingMethod(opt) == opt = None \/ The(opt) = ""

HeadersReturn(h) == [kind |-> "return", headers |-> h, err |-> NoError]

HeadersThrow(e) == [kind |-> "throw", headers |-> {}, err |-> e]

ContentTypeHeader == <<"Content-Type", <<"application/json">>>>

\* getAuthHeaders(userSettings); settings is None for null / undefined.
getAuthHeaders(settings) ==
    IF settings = None
        THEN HeadersThrow(MkError(<<"User settings are required">>, None))
    ELSE LET userSettings == The(settings) IN
    IF Missing(userSettings.wikiUrl)
        THEN HeadersThrow(MkError(
                 <<"DokuWiki", " URL is required in settings">>, None))
    ELSE IF MissingMethod(userSettings.authMethod)
        THEN HeadersThrow(MkError(
                 <<"Authentication method is required in settings">>, None))
    ELSE IF Missing(userSettings.password)
        THEN HeadersThrow(MkError(
                 <<"Password/Token is required in settings">>, None))
    ELSE IF The(userSettings.authMethod) = "BASIC_AUTH"
        THEN IF Missing(userSettings.username)
             THEN HeadersThrow(MkError(
                      <<"Username is required for Basic Authentication">>,
                      None))
             ELSE LET credentials ==
                          The(userSettings.username) \o <<":">>
                          \o The(userSettings.password)
                  IN  IF ~BtoaAccepts(credentials)
                      THEN HeadersThrow(InvalidCharacterError)
                      ELSE HeadersReturn(
                               {ContentTypeHeader,
                                <<"Authorization",
                                  <<"Basic ">> \o btoa(credentials)>>})
    ELSE IF The(userSettings.authMethod) = "BEARER_TOKEN"
        THEN HeadersReturn(
                 {ContentTypeHeader,
                  <<"Authorization",
                    <<"Bearer ">> \o The(userSettings.password)>>})
    ELSE HeadersThrow(MkError(
             <<"Unsupported authentication method: ",
               The(userSettings.authMethod),
               ". Use BASIC_AUTH or BEARER_TOKEN.">>, None))

(* ------- auth.js: createJsonRpcClient and testConnection -------------- *)

ClientReturn(c) == [kind |-> "return", client |-> c, err |-> NoError]

ClientThrow(e) == [kind |-> "throw", client |-> NoClient, err |-> e]

\* wikiUrl.endsWith('/')
EndsWithSlash(url) == Len(url) > 0 /\ url[Len(url)] = "/"

\* Variant: the slash is added whatever the wikiUrl ends with.
BaseUrlAppend(wikiUrl) == wikiUrl \o <<"/", "lib/exe/jsonrpc.php">>

\* The base URL of the JSON-RPC endpoint.
BaseUrl(wikiUrl) ==
    IF EndsWithSlash(wikiUrl)
    THEN wikiUrl \o <<"lib/exe/jsonrpc.php">>
    ELSE wikiUrl \o <<"/", "lib/exe/jsonrpc.php">>

\* What reading .endsWith of an undefined wikiUrl throws.
EndsWithTypeError ==
    MkError(<<"Cannot read properties of undefined (reading 'endsWith')">>,
            None)

\* createJsonRpcClient(userSettings)
createJsonRpcClient(settings) ==
    IF settings = None
        THEN ClientThrow(MkError(<<"User settings are required">>, None))
    ELSE IF The(settings).wikiUrl = None
        THEN ClientThrow(EndsWithTypeError)
    ELSE LET headers == getAuthHeaders(settings)
         IN  IF headers.kind = "throw"
             THEN ClientThrow(headers.err)
             ELSE ClientReturn([baseUrl |-> BaseUrl(The(The(settings).wikiUrl)),
                                headers |-> headers.headers])

\* Variant: the underlying error is re-raised with the prefix added.
testConnectionRethrow(t) ==
    IF t.kind = "return" THEN Return("true")
    ELSE Throw([t.err EXCEPT !.message =
                   <<"Failed to connect to ", "DokuWiki", ": ">> \o @])

\* testConnection(client) once client.call('core.getWikiTitle') has settled
\* with t.
testConnection(t) ==
    IF t.kind = "return" THEN Return("true")
    ELSE Throw(MkError(<<"Failed to connect to ", "DokuWiki", ": ">>
                       \o t.err.message, None))

(* ----------------------------- apiClient.js ---------------------------- *)

\* Variant: the prefix is added whatever the message contains.
InitErrorAlways(error) ==
    [error EXCEPT !.message =
        <<"Failed to initialize ", "DokuWiki", " client: ">> \o @]

\* The catch block of createApiClient.
InitError(error) ==
    IF ~Includes(error.message, <<"DokuWiki">>)
    THEN [error EXCEPT !.message =
             <<"Failed to initialize ", "DokuWiki", " client: ">> \o @]
    ELSE error


\* enhancedError.message += `\n\nPossible solution: ${recoverySuggestion}`
WithSuggestion(error, suggestion) ==
    IF suggestion # None
    THEN [error EXCEPT !.message =
             @ \o <<"\n\n", "Possible solution:", " ">> \o The(suggestion)]
    ELSE error

\* Variant: the suggestion is looked up for the caught error, not the
\* enhanced one.
FacadeCatchOriginal(error) ==
    WithSuggestion(handleApiError(error), getRecoverySuggestion(error))

\* The catch block of the facade's call.
FacadeCatch(error) ==
    LET enhancedError == handleApiError(error)
    IN  WithSuggestion(enhancedError, getRecoverySuggestion(enhancedError))

\* Error objects have an identity: objs is the sequence of the error
\* objects that exist, ref the position of one of them.

\* Variant: the caught object itself is given the enhanced message.
handleApiErrorObjInPlace(objs, ref) ==
    [objs |-> [objs EXCEPT ![ref] = handleApiError(@)], ref |-> ref]

\* handleApiError(objs[ref]): returns the object it was given, or creates
\* a new one (new Error) and returns that.
handleApiErrorObj(objs, ref) ==
    IF NoCodeGiven(objs[ref])
    THEN [objs |-> objs, ref |-> ref]
    ELSE [objs |-> Append(objs, handleApiError(objs[ref])),
          ref |-> Len(objs) + 1]

\* The catch block of the facade's call on the caught object objs[ref]:
\* the suggestion is appended to the message of the object handleApiError
\* returned, and that object is thrown.
FacadeCatchObj(objs, ref) ==
    LET h == handleApiErrorObj(objs, ref)
        recoverySuggestion == getRecoverySuggestion(h.objs[h.ref])
    IN  [objs |-> [h.objs EXCEPT
                      ![h.ref] = WithSuggestion(@, recoverySuggestion)],
         ref |-> h.ref]

\* What the facade's call hands to this._jsonRpcClient.call.
FacadeArgs(method, params) == [method |-> method, params |-> params]

\* The facade's call once the transport has settled with t.
FacadeCall(t) ==
    IF t.kind = "return" THEN t ELSE Throw(FacadeCatch(t.err))

pageExistsArgs(pageId) ==
    [method |-> "core.getPageInfo", params |-> {<<"page", pageId>>}]

mediaExistsArgs(mediaId) ==
    [method |-> "core.getMediaInfo", params |-> {<<"media", mediaId>>}]

\* pageExists / mediaExists once this.call has settled with f.
Exists(notFound, f) ==
    IF f.kind = "return" THEN Return("true")
    ELSE IF f.err.code = Some(notFound) THEN Return("false")
    ELSE f

pageExists(f) == Exists(121, f)

mediaExists(f) == Exists(221, f)

\* The three methods of getWikiInfo, in the order of the array handed to
\* Promise.all, and the property of the result each one fills.
WikiInfoMethods ==
    <<"core.getWikiTitle", "core.getWikiVersion", "core.getAPIVersion">>

NoWikiInfo ==
    [title |-> "undefined", version |-> "undefined",
     apiVersion |-> "undefined"]

WikiInfoReturn(v) == [kind |-> "return", value |-> v, err |-> NoError]

WikiInfoThrow(e) == [kind |-> "throw", value |-> NoWikiInfo, err |-> e]

\* Variant: the results are assigned in the order version, title,
\* apiVersion.
getWikiInfoSwapped(settled) ==
    WikiInfoReturn([title      |-> settled[2].value,
                    version    |-> settled[1].value,
                    apiVersion |-> settled[3].value])

\* getWikiInfo once all three of its calls have returned; settled[k] is
\* what this.call(WikiInfoMethods[k]) resolved to.
getWikiInfo(settled) ==
    WikiInfoReturn([title      |-> settled[1].value,
                    version    |-> settled[2].value,
                    apiVersion |-> settled[3].value])

(* --------------------------- implementation.js ------------------------- *)

\* The params object of manage_dokuwiki: every parameter is absent (None)
\* or present.  Text parameters hold the string; number and boolean
\* parameters hold their JSON text ("0", "2", "true", "false").
ParamKeys ==
    {"operation", "pageId", "content", "base64_content", "mediaId", "query",
     "searchQuery", "namespace", "summary", "pattern", "rev", "depth",
     "first", "minor", "include_hash", "include_author", "overwrite"}

\* params = {}
NoParams == [k \in ParamKeys |-> None]

\* !value of a text parameter
Empty(v) == v = None \/ The(v) = ""

\* !value of a number or boolean parameter
Falsy(v) == v = None \/ The(v) \in {"0", "false"}

\* text || default
OrText(v, default) == IF Empty(v) THEN default ELSE The(v)

\* value || default, for a number or boolean parameter
OrValue(v, default) == IF Falsy(v) THEN default ELSE The(v)

\* userSettings?.defaultNamespace
defaultNamespace(settings) ==
    IF settings = None THEN None
    ELSE IF "defaultNamespace" \in DOMAIN The(settings)
        THEN The(settings).defaultNamespace
    ELSE None

\* What a handler does before its await: it throws, or it issues
\* client.call(method, params).
HandlerCall(method, params) ==
    [kind |-> "call", method |-> method, params |-> params, err |-> NoError]

HandlerThrow(message) ==
    [kind |-> "throw", method |-> "", params |-> {},
     err |-> MkError(message, None)]

getPage(params) ==
    IF Empty(params.pageId)
    THEN HandlerThrow(<<"Page ID is required for get_page operation">>)
    ELSE HandlerCall("core.getPage",
                     {<<"page", The(params.pageId)>>,
                      <<"rev", OrValue(params.rev, "0")>>})

savePage(params) ==
    IF Empty(params.pageId)
    THEN HandlerThrow(<<"Page ID is required for save_page operation">>)
    ELSE IF params.content = None
    THEN HandlerThrow(<<"Content is required for save_page operation">>)
    ELSE HandlerCall("core.savePage",
                     {<<"page", The(params.pageId)>>,
                      <<"text", The(params.content)>>,
                      <<"summary", OrText(params.summary, "")>>,
                      <<"isminor", OrValue(params.minor, "false")>>})

appendPage(params) ==
    IF Empty(params.pageId)
    THEN HandlerThrow(<<"Page ID is required for append_page operation">>)
    ELSE IF Empty(params.content)
    THEN HandlerThrow(<<"Content is required for append_page operation">>)
    ELSE HandlerCall("core.appendPage",
                     {<<"page", The(params.pageId)>>,
                      <<"text", The(params.content)>>,
                      <<"summary", OrText(params.summary, "")>>,
                      <<"isminor", OrValue(params.minor, "false")>>})

listPages(params, userSettings) ==
    HandlerCall("core.listPages",
                {<<"namespace",
                   OrText(params.namespace,
                          OrText(defaultNamespace(userSettings), ""))>>,
                 <<"depth", OrValue(params.depth, "1")>>,
                 <<"hash", OrValue(params.include_hash, "false")>>})

searchPages(params) ==
    IF Empty(params.searchQuery) /\ Empty(params.query)
    THEN HandlerThrow(
             <<"Search query is required for search_pages operation">>)
    ELSE HandlerCall("core.searchPages",
                     {<<"query",
                        OrText(params.query, OrText(params.searchQuery,
                                                    ""))>>})

getPageInfo(params) ==
    IF Empty(params.pageId)
    THEN HandlerThrow(<<"Page ID is required for get_page_info operation">>)
    ELSE HandlerCall("core.getPageInfo",
                     {<<"page", The(params.pageId)>>,
                      <<"rev", OrValue(params.rev, "0")>>,
                      <<"author", OrValue(params.include_author, "false")>>,
                      <<"hash", OrValue(params.include_hash, "false")>>})

getPageHistory(params) ==
    IF Empty(params.pageId)
    THEN HandlerThrow(
             <<"Page ID is required for get_page_history operation">>)
    ELSE HandlerCall("core.getPageHistory",
                     {<<"page", The(params.pageId)>>,
                      <<"first", OrValue(params.first, "0")>>})

listMedia(params, userSettings) ==
    HandlerCall("core.listMedia",
                {<<"namespace",
                   OrText(params.namespace,
                          OrText(defaultNamespace(userSettings), ""))>>,
                 <<"pattern", OrText(params.pattern, "")>>,
                 <<"depth", OrValue(params.depth, "1")>>,
                 <<"hash", OrValue(params.include_hash, "false")>>})

getMedia(params) ==
    IF Empty(params.mediaId)
    THEN HandlerThrow(<<"Media ID is required for get_media operation">>)
    ELSE HandlerCall("core.getMedia",
                     {<<"media", The(params.mediaId)>>,
                      <<"rev", OrValue(params.rev, "0")>>})

saveMedia(params) ==
    IF Empty(params.mediaId)
    THEN HandlerThrow(<<"Media ID is required for save_media operation">>)
    ELSE IF Empty(params.base64_content) /\ Empty(params.content)
    THEN HandlerThrow(
             <<"Content (base64 encoded) is required for save_media operation">>)
    ELSE HandlerCall("core.saveMedia",
                     {<<"media", The(params.mediaId)>>,
                      <<"base64",
                        OrText(params.base64_content,
                               OrText(params.content, ""))>>,
                      <<"overwrite", OrValue(params.overwrite, "false")>>})

deleteMedia(params) ==
    IF Empty(params.mediaId)
    THEN HandlerThrow(<<"Media ID is required for delete_media operation">>)
    ELSE HandlerCall("core.deleteMedia", {<<"media", The(params.mediaId)>>})

\* The switch of manage_dokuwiki.
Route(params, userSettings) ==
    LET operation == The(params.operation)
    IN  CASE operation = "get_page"         -> getPage(params)
          [] operation = "save_page"        -> savePage(params)
          [] operation = "append_page"      -> appendPage(params)
          [] operation = "list_pages"       -> listPages(params, userSettings)
          [] operation = "search_pages"     -> searchPages(params)
          [] operation = "get_page_info"    -> getPageInfo(params)
          [] operation = "get_page_history" -> getPageHistory(params)
          [] operation = "list_media"       -> listMedia(params, userSettings)
          [] operation = "get_media"        -> getMedia(params)
          [] operation = "save_media"       -> saveMedia(params)
          [] operation = "delete_media"     -> deleteMedia(params)
          [] OTHER -> HandlerThrow(<<"Unsupported operation: ", operation>>)

\* Variant: every handler turns a failure with code 121 into the empty
\* string.
HandlerResultAnyOperation(operation, f) ==
    IF f.kind = "throw" /\ f.err.code = Some(121)
    THEN Return("\"\"")
    ELSE f

\* A handler once its client.call has settled with f: getPage turns a
\* failure with code 121 into the empty string, the others pass f on.
HandlerResult(operation, f) ==
    IF operation = "get_page" /\ f.kind = "throw" /\ f.err.code = Some(121)
    THEN Return("\"\"")
    ELSE f

\* The catch block of manage_dokuwiki.
ManageCatch(error) ==
    LET enhancedError == handleApiError(error)
    IN  WithSuggestion(enhancedError, getRecoverySuggestion(enhancedError))

(* ------------------------------ behaviour ------------------------------ *)

\* calls[i]: an invocation in flight (its fetch is awaiting the response).
\* last: the most recently settled invocation, with what the transport
\*       (tout) and the invoked operation (out) resolved to.
IdleCall ==
    [pc |-> "idle", op |-> "none", id |-> "", method |-> "", params |-> {},
     sent |-> RpcRequest(NoClient, "", {}), posts |-> 0]

NoLast ==
    [op |-> "none", id |-> "", method |-> "", params |-> {},
     sent |-> RpcRequest(NoClient, "", {}), posts |-> 0, resp |-> CHOOSE r \in Responses : TRUE,
     tout |-> Return("undefined"), out |-> Return("undefined")]

NoErrIn == MkError(<<>>, None)

\* An invocation of getWikiInfo:
\*   pc       "idle", "awaiting" (Promise.all is pending) or "settled"
\*   sent     the requests of its three calls, posts: fetches issued
\*   pending  the calls whose fetch has not settled yet
\*   settled  what each call resolved to, once its fetch has settled
\*   order    the calls in the order in which their fetches settled
\*   resp     the response each call got
\*   out      what getWikiInfo resolved to
IdleInfo ==
    [pc |-> "idle", sent |-> <<>>, posts |-> 0, pending |-> {},
     settled |-> [k \in 1..3 |-> Return("undefined")], order |-> <<>>,
     resp |-> [k \in 1..3 |-> CHOOSE r \in Responses : TRUE],
     out |-> WikiInfoReturn(NoWikiInfo)]

\* A run of createJsonRpcClient / createApiClient / manage_dokuwiki:
\*   entry      the function called, with settings, testConnection (test)
\*              and, for manage_dokuwiki, params (None if not given)
\*   pc         "start", "probing" (awaiting the probe's fetch), "ready"
\*              (client returned), "operating" (awaiting the operation's
\*              fetch), "done" (value returned, in result) or "failed"
\*              (error raised, in result)
\*   transport  the object createJsonRpcClient returned, if it did
\*   probes     how often testConnection was called; posts: fetches issued
\*   probeSent, probeResp, probeOut: the probe's request, the response to
\*              it and what testConnection resolved to
\*   opSent, opResp: the operation's request and the response to it
NewCtor(entry, settings, test) ==
    [entry |-> entry, settings |-> settings, test |-> test, pc |-> "start",
     transport |-> None, probes |-> 0, posts |-> 0,
     probeSent |-> RpcRequest(NoClient, "", {}),
     probeResp |-> CHOOSE r \in Responses : TRUE,
     probeOut |-> Return("undefined"), params |-> None,
     opSent |-> RpcRequest(NoClient, "", {}),
     opResp |-> CHOOSE r \in Responses : TRUE,
     result |-> Return("undefined")]

DefaultSettings ==
    Some([wikiUrl    |-> Some(<<"https://wiki.example.com">>),
          authMethod |-> Some("BASIC_AUTH"),
          username   |-> Some(<<"u">>),
          password   |-> Some(<<"p">>)])

\* createApiClient(DefaultSettings, false) after it has returned.
ReadyCtor ==
    [NewCtor("createApiClient", DefaultSettings, FALSE) EXCEPT
        !.pc = "ready",
        !.transport = Some(createJsonRpcClient(DefaultSettings).client),
        !.result = Return("client")]

Init ==
    /\ calls = [i \in Slots |-> IdleCall]
    /\ last = NoLast
    /\ errIn = NoErrIn
    /\ errOut = None
    /\ sugOut = None
    /\ objOut = None
    /\ info = IdleInfo
    /\ setIn = None
    /\ hdrOut = None
    /\ ctor = ReadyCtor
    /\ client = ReadyCtor.transport

\* Variant: the request carries the Content-Type header only.
FetchBare(op, id, method, params, t) ==
    [pc |-> "awaiting", op |-> op, id |-> id, method |-> method,
     params |-> params,
     sent |-> [RpcRequest(The(client), t.method, t.params)
                  EXCEPT !.headers = {ContentTypeHeader}],
     posts |-> 1]

\* The transport's call runs up to its await: one fetch is issued.
Fetch(op, id, method, params, t) ==
    [pc |-> "awaiting", op |-> op, id |-> id, method |-> method,
     params |-> params,
     sent |-> RpcRequest(The(client), t.method, t.params), posts |-> 1]

\* jsonRpcClient.call(method, params) called directly.
InvokeTransportCall(i, method, params) ==
    /\ client # None
    /\ calls[i].pc = "idle"
    /\ calls' = [calls EXCEPT ![i] =
                    Fetch("transport.call", "", method, params,
                          [method |-> method, params |-> params])]
    /\ UNCHANGED <<last, otherVars>>

\* client.call(method, params)
InvokeCall(i, method, params) ==
    /\ client # None
    /\ ctor.entry = "createApiClient"
    /\ calls[i].pc = "idle"
    /\ calls' = [calls EXCEPT ![i] =
                    Fetch("call", "", method, params,
                          FacadeArgs(method, params))]
    /\ UNCHANGED <<last, otherVars>>

\* client.pageExists(pageId)
InvokePageExists(i, pageId) ==
    /\ client # None
    /\ ctor.entry = "createApiClient"
    /\ calls[i].pc = "idle"
    /\ LET a == pageExistsArgs(pageId)
       IN  calls' = [calls EXCEPT ![i] =
                        Fetch("pageExists", pageId, a.method, a.params,
                              FacadeArgs(a.method, a.params))]
    /\ UNCHANGED <<last, otherVars>>

\* client.mediaExists(mediaId)
InvokeMediaExists(i, mediaId) ==
    /\ client # None
    /\ ctor.entry = "createApiClient"
    /\ calls[i].pc = "idle"
    /\ LET a == mediaExistsArgs(mediaId)
       IN  calls' = [calls EXCEPT ![i] =
                        Fetch("mediaExists", mediaId, a.method, a.params,
                              FacadeArgs(a.method, a.params))]
    /\ UNCHANGED <<last, otherVars>>

\* client.getWikiInfo(): the array handed to Promise.all is built, each
\* this.call running up to its fetch.
InvokeGetWikiInfo ==
    /\ client # None
    /\ ctor.entry = "createApiClient"
    /\ info.pc = "idle"
    /\ info' = [info EXCEPT
                   !.pc = "awaiting",
                   !.sent = [k \in 1..3 |->
                                LET a == FacadeArgs(WikiInfoMethods[k], {})
                                IN  RpcRequest(The(client), a.method,
                                               a.params)],
                   !.posts = 3,
                   !.pending = 1..3]
    /\ UNCHANGED <<calls, last, enrichVars, authVars, createVars>>

\* The outcome of Promise.all after call k has resolved to f: the first
\* rejection rejects it, the last fulfilment fulfils it.
PromiseAll(i, k, f) ==
    IF i.pc # "awaiting" THEN i
    ELSE IF f.kind = "throw"
        THEN [i EXCEPT !.pc = "settled", !.out = WikiInfoThrow(f.err)]
    ELSE IF i.pending = {}
        THEN [i EXCEPT !.pc = "settled", !.out = getWikiInfo(i.settled)]
    ELSE i

\* The fetch of the k-th call of getWikiInfo settles.
InfoRespond(k, resp) ==
    /\ k \in info.pending
    /\ LET f == FacadeCall(TransportCall(info.sent[k].method, resp))
       IN  info' = PromiseAll([info EXCEPT !.pending = @ \ {k},
                                          !.settled[k] = f,
                                          !.order = Append(@, k),
                                          !.resp[k] = resp],
                              k, f)
    /\ UNCHANGED <<calls, last, enrichVars, authVars, createVars>>

\* The invocation of slot c settled by response resp: the transport's
\* continuation, then the facade's, then the existence check's.
Settled(c, resp) ==
    LET t == TransportCall(c.sent.method, resp)
        f == FacadeCall(t)
    IN  [op |-> c.op, id |-> c.id, method |-> c.method, params |-> c.params,
         sent |-> c.sent, posts |-> c.posts, resp |-> resp, tout |-> t,
         out |-> CASE c.op = "transport.call" -> t
                   [] c.op = "call"           -> f
                   [] c.op = "pageExists"     -> pageExists(f)
                   [] c.op = "mediaExists"    -> mediaExists(f)]

\* Variant: a failed fetch is issued once more before the call settles.
RespondRetry(i, resp) ==
    /\ calls[i].pc = "awaiting"
    /\ IF TransportCall(calls[i].sent.method, resp).kind = "throw"
          /\ calls[i].posts < 2
       THEN /\ calls' = [calls EXCEPT ![i].posts = @ + 1]
            /\ UNCHANGED last
       ELSE /\ last' = Settled(calls[i], resp)
            /\ calls' = [calls EXCEPT ![i] = IdleCall]
    /\ UNCHANGED otherVars

\* fetch settles for the invocation in slot i; the invocation runs to its end.
Respond(i, resp) ==
    /\ calls[i].pc = "awaiting"
    /\ last' = Settled(calls[i], resp)
    /\ calls' = [calls EXCEPT ![i] = IdleCall]
    /\ UNCHANGED otherVars

Next ==
    \/ \E i \in Slots, m \in Methods, p \in ParamSets : InvokeTransportCall(i, m, p)
    \/ \E i \in Slots, m \in Methods, p \in ParamSets : InvokeCall(i, m, p)
    \/ \E i \in Slots, id \in Ids : InvokePageExists(i, id)
    \/ \E i \in Slots, id \in Ids : InvokeMediaExists(i, id)
    \/ \E i \in Slots, r \in Responses : Respond(i, r)

Spec == Init /\ [][Next]_vars

(* ------------------- enrichment as a pure function --------------------- *)

EnrichCodes ==
    TableCodes \cup {123, 499, 550, 599, 600, 999, 1500, 1999, 2000, 9999}

EnrichMessages ==
    ServerMessages \cup {<<"Technical database error">>, <<"Success">>}

ErrorInputs ==
    [message : EnrichMessages,
     code : {None} \cup {Some(c) : c \in EnrichCodes},
     originalMessage : {None} \cup {Some(m) : m \in EnrichMessages}]

InitEnrich ==
    /\ calls = [i \in Slots |-> IdleCall]
    /\ last = NoLast
    /\ errIn \in ErrorInputs
    /\ errOut = None
    /\ sugOut = None
    /\ objOut = None
    /\ info = IdleInfo
    /\ setIn = None
    /\ hdrOut = None
    /\ ctor = ReadyCtor
    /\ client = ReadyCtor.transport

\* handleApiError(errIn)
ApplyHandleApiError ==
    /\ errOut = None
    /\ errOut' = Some(handleApiError(errIn))
    /\ UNCHANGED <<calls, last, errIn, sugOut, objOut, authVars, createVars,
                   infoVars>>

\* getRecoverySuggestion(errIn)
ApplyGetRecoverySuggestion ==
    /\ sugOut = None
    /\ sugOut' = Some(getRecoverySuggestion(errIn))
    /\ UNCHANGED <<calls, last, errIn, errOut, objOut, authVars, createVars,
                   infoVars>>

\* The facade's catch block handles errIn, the only error object so far.
ApplyFacadeCatch ==
    /\ objOut = None
    /\ objOut' = Some(FacadeCatchObj(<<errIn>>, 1))
    /\ UNCHANGED <<calls, last, errIn, errOut, sugOut, authVars, createVars,
                   infoVars>>

NextEnrich ==
    \/ ApplyHandleApiError
    \/ ApplyGetRecoverySuggestion
    \/ ApplyFacadeCatch

SpecEnrich == InitEnrich /\ [][NextEnrich]_vars

(* ------------------ getAuthHeaders as a pure function ------------------ *)

WikiUrls ==
    {<<"https://wiki.example.com">>, <<"https://wiki.example.com", "/">>}

AuthMethods == {"BASIC_AUTH", "BEARER_TOKEN", "UNKNOWN_AUTH", ""}

Usernames == {<<>>, <<"u">>, <<"u", "a">>}

Passwords == {<<>>, <<"p">>, <<"p", "a", ":">>, <<"p", "U+20AC">>}

Optional(S) == {None} \cup {Some(x) : x \in S}

SettingsInputs ==
    Optional([wikiUrl    : Optional(WikiUrls \cup {<<>>}),
              authMethod : Optional(AuthMethods),
              username   : Optional(Usernames),
              password   : Optional(Passwords)])

InitAuth ==
    /\ calls = [i \in Slots |-> IdleCall]
    /\ last = NoLast
    /\ errIn = NoErrIn
    /\ errOut = None
    /\ sugOut = None
    /\ objOut = None
    /\ info = IdleInfo
    /\ setIn \in SettingsInputs
    /\ hdrOut = None
    /\ ctor = ReadyCtor
    /\ client = ReadyCtor.transport

\* getAuthHeaders(setIn)
ApplyGetAuthHeaders ==
    /\ hdrOut = None
    /\ hdrOut' = Some(getAuthHeaders(setIn))
    /\ UNCHANGED <<calls, last, enrichVars, setIn, createVars, infoVars>>

NextAuth == ApplyGetAuthHeaders

SpecAuth == InitAuth /\ [][NextAuth]_vars

(* ----------------------------- construction ---------------------------- *)

\* Variant: the settings are not checked when the transport is built.
CreateApiClientBeginUnchecked(c) ==
    LET t == IF c.settings = None \/ The(c.settings).wikiUrl = None
             THEN ClientReturn(NoClient)
             ELSE ClientReturn(
                      [baseUrl |-> BaseUrl(The(The(c.settings).wikiUrl)),
                       headers |-> {ContentTypeHeader}])
    IN  IF c.test
        THEN [c EXCEPT !.pc = "probing",
                       !.transport = Some(t.client),
                       !.probes = @ + 1,
                       !.posts = @ + 1,
                       !.probeSent =
                           RpcRequest(t.client, "core.getWikiTitle", {})]
        ELSE [c EXCEPT !.pc = "ready",
                       !.transport = Some(t.client),
                       !.result = Return("client")]

\* Variant: the connection is tested whatever the testConnection argument.
CreateApiClientBeginAlwaysProbe(c) ==
    LET t == createJsonRpcClient(c.settings)
    IN  IF t.kind = "throw"
        THEN [c EXCEPT !.pc = "failed", !.result = Throw(InitError(t.err))]
        ELSE [c EXCEPT !.pc = "probing",
                       !.transport = Some(t.client),
                       !.probes = @ + 1,
                       !.posts = @ + 1,
                       !.probeSent =
                           RpcRequest(t.client, "core.getWikiTitle", {})]

\* createApiClient up to its first await on the network: the transport is
\* built and, if requested, testConnection issues the probe.
CreateApiClientBegin(c) ==
    LET t == createJsonRpcClient(c.settings)
    IN  IF t.kind = "throw"
        THEN [c EXCEPT !.pc = "failed", !.result = Throw(InitError(t.err))]
        ELSE IF c.test
        THEN [c EXCEPT !.pc = "probing",
                       !.transport = Some(t.client),
                       !.probes = @ + 1,
                       !.posts = @ + 1,
                       !.probeSent =
                           RpcRequest(t.client, "core.getWikiTitle", {})]
        ELSE [c EXCEPT !.pc = "ready",
                       !.transport = Some(t.client),
                       !.result = Return("client")]

\* createApiClient after the probe's fetch has settled with resp.
CreateApiClientProbed(c, resp) ==
    LET p == testConnection(TransportCall(c.probeSent.method, resp))
    IN  IF p.kind = "throw"
        THEN [c EXCEPT !.pc = "failed", !.probeResp = resp, !.probeOut = p,
                       !.result = Throw(InitError(p.err))]
        ELSE [c EXCEPT !.pc = "ready", !.probeResp = resp, !.probeOut = p,
                       !.result = Return("client")]

\* manage_dokuwiki(params, userSettings) up to its first await on the
\* network: the operation check, then createApiClient(userSettings).
ManageBegin(c) ==
    IF c.params = None \/ Empty(The(c.params).operation)
    THEN [c EXCEPT !.pc = "failed",
                   !.result = Throw(ManageCatch(
                       MkError(<<"Operation parameter is required">>, None)))]
    ELSE LET b == CreateApiClientBegin([c EXCEPT !.test = TRUE])
         IN  IF b.pc = "failed"
             THEN [b EXCEPT !.result = Throw(ManageCatch(@.err))]
             ELSE b

\* Variant: the handler runs whether or not createApiClient has failed.
ManageProbedUnchecked(c, resp) ==
    LET b == CreateApiClientProbed(c, resp)
        h == Route(The(c.params), c.settings)
    IN  IF h.kind = "throw"
        THEN [b EXCEPT !.pc = "failed", !.result = Throw(ManageCatch(h.err))]
        ELSE [b EXCEPT !.pc = "operating",
                       !.posts = @ + 1,
                       !.opSent = RpcRequest(The(b.transport), h.method,
                                             h.params)]

\* manage_dokuwiki after the probe's fetch has settled with resp: the rest
\* of createApiClient, then the handler up to its client.call.
ManageProbed(c, resp) ==
    LET b == CreateApiClientProbed(c, resp)
        h == Route(The(c.params), c.settings)
    IN  IF b.pc = "failed"
        THEN [b EXCEPT !.result = Throw(ManageCatch(@.err))]
        ELSE IF h.kind = "throw"
        THEN [b EXCEPT !.pc = "failed", !.result = Throw(ManageCatch(h.err))]
        ELSE [b EXCEPT !.pc = "operating",
                       !.posts = @ + 1,
                       !.opSent = RpcRequest(The(b.transport), h.method,
                                             h.params)]

\* manage_dokuwiki after the operation's fetch has settled with resp.
ManageSettled(c, resp) ==
    LET f == FacadeCall(TransportCall(c.opSent.method, resp))
        h == HandlerResult(The(The(c.params).operation), f)
    IN  IF h.kind = "throw"
        THEN [c EXCEPT !.pc = "failed", !.opResp = resp,
                       !.result = Throw(ManageCatch(h.err))]
        ELSE [c EXCEPT !.pc = "done", !.opResp = resp, !.result = h]

\* The client the caller holds once the run has returned.
Returned(c) == IF c.pc = "ready" THEN c.transport ELSE None

\* createJsonRpcClient(settings) called directly.
RunCreateJsonRpcClient ==
    /\ ctor.entry = "createJsonRpcClient"
    /\ ctor.pc = "start"
    /\ LET t == createJsonRpcClient(ctor.settings)
       IN  ctor' = IF t.kind = "throw"
                   THEN [ctor EXCEPT !.pc = "failed", !.result = Throw(t.err)]
                   ELSE [ctor EXCEPT !.pc = "ready",
                                     !.transport = Some(t.client),
                                     !.result = Return("client")]
    /\ client' = Returned(ctor')
    /\ UNCHANGED <<calls, last, enrichVars, authVars, infoVars>>

\* createApiClient(settings, testConnection) is called.
RunCreateApiClient ==
    /\ ctor.entry = "createApiClient"
    /\ ctor.pc = "start"
    /\ ctor' = CreateApiClientBegin(ctor)
    /\ client' = Returned(ctor')
    /\ UNCHANGED <<calls, last, enrichVars, authVars, infoVars>>

\* The probe's fetch settles.
ProbeRespond(resp) ==
    /\ ctor.entry = "createApiClient"
    /\ ctor.pc = "probing"
    /\ ctor' = CreateApiClientProbed(ctor, resp)
    /\ client' = Returned(ctor')
    /\ UNCHANGED <<calls, last, enrichVars, authVars, infoVars>>

\* manage_dokuwiki(params, userSettings) is called.
RunManageDokuwiki ==
    /\ ctor.entry = "manage_dokuwiki"
    /\ ctor.pc = "start"
    /\ ctor' = ManageBegin(ctor)
    /\ UNCHANGED <<client, calls, last, enrichVars, authVars, infoVars>>

\* The fetch of manage_dokuwiki's probe settles.
ManageProbeRespond(resp) ==
    /\ ctor.entry = "manage_dokuwiki"
    /\ ctor.pc = "probing"
    /\ ctor' = ManageProbed(ctor, resp)
    /\ UNCHANGED <<client, calls, last, enrichVars, authVars, infoVars>>

\* The fetch of manage_dokuwiki's operation settles.
ManageOperationRespond(resp) ==
    /\ ctor.entry = "manage_dokuwiki"
    /\ ctor.pc = "operating"
    /\ ctor' = ManageSettled(ctor, resp)
    /\ UNCHANGED <<client, calls, last, enrichVars, authVars, infoVars>>

Settings(url, method, user, pass) ==
    Some([wikiUrl |-> url, authMethod |-> method, username |-> user,
          password |-> pass])

CreateWikiUrls ==
    WikiUrls \cup {<<"http://localhost", "/", "wiki">>,
                   <<"http://localhost", "/", "wiki", "/">>}

CreateSettings ==
    {None}
    \cup {Settings(Some(u), Some(m), user, Some(<<"p">>)) :
            u \in CreateWikiUrls, m \in {"BASIC_AUTH", "BEARER_TOKEN"},
            user \in {None, Some(<<"u">>)}}
    \cup {Settings(u, Some("BASIC_AUTH"), Some(<<"u">>), Some(<<"p">>)) :
            u \in {None, Some(<<>>)}}
    \cup {Settings(Some(<<"https://wiki.example.com">>), m, Some(<<"u">>),
                   Some(<<"p">>)) : m \in {None, Some("UNKNOWN_AUTH")}}
    \cup {Settings(Some(<<"https://wiki.example.com">>), Some("BASIC_AUTH"),
                   Some(<<"u">>), p) :
            p \in {None, Some(<<>>), Some(<<"p", "U+20AC">>)}}

\* Responses whose status or text the other specifications do not draw:
\* the statuses 401 and 403, a code without a table entry in the range of
\* the server errors, and texts that already contain the context phrase.
ExtraResponses ==
    {[kind |-> "http", status |-> 401, text |-> <<"Unauthorized">>,
      json |-> NoJson],
     [kind |-> "http", status |-> 403, text |-> <<"Forbidden">>,
      json |-> NoJson],
     [kind |-> "http", status |-> 500,
      text |-> <<"DokuWiki", " API error", ": backend down">>,
      json |-> NoJson],
     [kind |-> "http", status |-> 200, text |-> <<>>,
      json |-> [result |-> "null",
                error |-> [tag |-> "object", code |-> 503,
                           message |-> <<"Service unavailable">>]]],
     [kind |-> "http", status |-> 200, text |-> <<>>,
      json |-> [result |-> "null",
                error |-> [tag |-> "object", code |-> 133,
                           message |-> <<"DokuWiki", " API error",
                                         ": page locked">>]]]}

CreateResponses ==
    ExtraResponses \cup
    {r \in Responses :
        \/ r.kind = "reject" /\ r.text = <<"Network error">>
        \/ r.kind = "http" /\ r.status = 404 /\ r.text = <<"Not Found">>
        \/ r.kind = "unparsable"
        \/ /\ r.kind = "http" /\ r.status = 200
           /\ r.json.error = NullErrorField
           /\ r.json.result \in {"null", "\"Test Wiki\""}
        \/ /\ r.kind = "http" /\ r.status = 200
           /\ r.json.error.tag = "object"
           /\ r.json.result = "null"
           /\ r.json.error.code \in {0, 121, 401}
           /\ r.json.error.message = <<"Test error">>
        \/ r.kind = "http" /\ r.status = 500 /\ r.text = <<>>
        \/ /\ r.kind = "http" /\ r.status = 200
           /\ r.json.error.tag = "object"
           /\ r.json.result = "null"
           /\ r.json.error.code = 9999
           /\ r.json.error.message = <<"Authentication failed">>}

WithParams(given) ==
    [k \in ParamKeys |-> IF k \in DOMAIN given THEN Some(given[k]) ELSE None]

ManageParams ==
    {None, Some(NoParams)}
    \cup {Some(WithParams(g)) : g \in
            {[operation |-> ""],
             [operation |-> "rename_page", pageId |-> "start"],
             [operation |-> "get_page"],
             [operation |-> "get_page", pageId |-> "start"],
             [operation |-> "get_page", pageId |-> "start", rev |-> "2"],
             [operation |-> "save_page", pageId |-> "start"],
             [operation |-> "save_page", pageId |-> "start", content |-> ""],
             [operation |-> "append_page", pageId |-> "start",
              content |-> ""],
             [operation |-> "append_page", pageId |-> "start",
              content |-> "text", minor |-> "true"],
             [operation |-> "list_pages"],
             [operation |-> "list_pages", namespace |-> "wiki",
              depth |-> "2"],
             [operation |-> "search_pages"],
             [operation |-> "search_pages", searchQuery |-> "text"],
             [operation |-> "get_page_info", pageId |-> "start"],
             [operation |-> "get_page_history", pageId |-> "start"],
             [operation |-> "list_media"],
             [operation |-> "get_media", mediaId |-> "wiki:logo.png"],
             [operation |-> "save_media", mediaId |-> "wiki:logo.png"],
             [operation |-> "save_media", mediaId |-> "wiki:logo.png",
              base64_content |-> "dGV4dA=="],
             [operation |-> "delete_media"],
             [operation |-> "delete_media", mediaId |-> "wiki:logo.png"]}}

InitCreate ==
    /\ calls = [i \in Slots |-> IdleCall]
    /\ last = NoLast
    /\ errIn = NoErrIn
    /\ errOut = None
    /\ sugOut = None
    /\ objOut = None
    /\ info = IdleInfo
    /\ setIn = None
    /\ hdrOut = None
    /\ client = None
    /\ \E s \in CreateSettings :
          \/ ctor = NewCtor("createJsonRpcClient", s, FALSE)
          \/ \E t \in BOOLEAN : ctor = NewCtor("createApiClient", s, t)
          \/ \E p \in ManageParams :
                ctor = [NewCtor("manage_dokuwiki", s, TRUE)
                           EXCEPT !.params = p]

NextCreate ==
    \/ RunCreateJsonRpcClient
    \/ RunCreateApiClient
    \/ \E r \in CreateResponses : ProbeRespond(r)
    \/ RunManageDokuwiki
    \/ \E r \in CreateResponses : ManageProbeRespond(r)
    \/ \E r \in CreateResponses : ManageOperationRespond(r)
    \/ \E i \in Slots : InvokeTransportCall(i, "core.getPage", {})
    \/ \E i \in Slots : InvokeCall(i, "core.getWikiTitle", {})
    \/ \E i \in Slots : InvokePageExists(i, "start")
    \/ \E i \in Slots : InvokeMediaExists(i, "wiki:logo.png")
    \/ \E i \in Slots, r \in CreateResponses : Respond(i, r)

SpecCreate == InitCreate /\ [][NextCreate]_vars

(* -------------------- operations of one built client ------------------- *)

\* createApiClient(settings, false) after it has returned.
Constructed(settings) ==
    [NewCtor("createApiClient", settings, FALSE) EXCEPT
        !.pc = "ready",
        !.transport = Some(createJsonRpcClient(settings).client),
        !.result = Return("client")]

InfoSettings ==
    {Settings(Some(<<"https://wiki.example.com", "/">>), Some("BASIC_AUTH"),
              Some(<<"u">>), Some(<<"p">>)),
     Settings(Some(<<"http://localhost", "/", "wiki">>), Some("BEARER_TOKEN"),
              None, Some(<<"p">>))}

InfoResponses ==
    {r \in Responses :
        \/ r.kind = "reject" /\ r.text = <<"Network error">>
        \/ /\ r.kind = "http" /\ r.status = 200
           /\ r.json.error = NoErrorField
           /\ r.json.result \in {"null", "\"Test Wiki\""}
        \/ /\ r.kind = "http" /\ r.status = 200
           /\ r.json.error.tag = "object"
           /\ r.json.result = "null"
           /\ r.json.error.code = 401
           /\ r.json.error.message = <<"Test error">>}

InitInfo ==
    /\ calls = [i \in Slots |-> IdleCall]
    /\ last = NoLast
    /\ errIn = NoErrIn
    /\ errOut = None
    /\ sugOut = None
    /\ objOut = None
    /\ info = IdleInfo
    /\ setIn = None
    /\ hdrOut = None
    /\ \E s \in InfoSettings :
          /\ ctor = Constructed(s)
          /\ client = Constructed(s).transport

NextInfo ==
    \/ InvokeGetWikiInfo
    \/ \E k \in 1..3, r \in InfoResponses : InfoRespond(k, r)
    \/ \E i \in Slots : InvokeCall(i, "core.getWikiTitle", {})
    \/ \E i \in Slots : InvokePageExists(i, "start")
    \/ \E i \in Slots : InvokeMediaExists(i, "wiki:logo.png")
    \/ \E i \in Slots, r \in InfoResponses : Respond(i, r)

SpecInfo == InitInfo /\ [][NextInfo]_vars

(* ------------------------------ properties ----------------------------- *)

\* The response has success status and a JSON body.
RespParsed(r) == r.kind = "http" /\ r.status >= 200 /\ r.status <= 299

\* ... and the body carries an error object.
RespRpcError(r) == RespParsed(r) /\ r.json.error.tag = "object"

\* ... and the body carries no error object.
RespSuccess(r) == RespParsed(r) /\ r.json.error.tag # "object"

\* The response has a non-success status.
RespHttpError(r) == r.kind = "http" /\ ~(r.status >= 200 /\ r.status <= 299)

NotFoundCode(op) == IF op = "pageExists" THEN 121 ELSE 221

\* C1: pageExists(id) sends core.getPageInfo with {page: id}, returns true
\* on every successful result, returns false exactly when the call fails
\* with code 121, and re-raises every other failure with its code;
\* mediaExists(id) likewise with core.getMediaInfo, {media: id} and 221.
C1_ExistenceChecks ==
    last.op \in {"pageExists", "mediaExists"} =>
        LET r == last.resp
            nf == NotFoundCode(last.op)
            notFound == RespRpcError(r) /\ r.json.error.code = nf
        IN  /\ last.sent.method =
                  (IF last.op = "pageExists" THEN "core.getPageInfo"
                                             ELSE "core.getMediaInfo")
            /\ last.sent.params =
                  {<<IF last.op = "pageExists" THEN "page" ELSE "media",
                     last.id>>}
            /\ RespSuccess(r) => last.out = Return("true")
            /\ (last.out = Return("false")) <=> notFound
            /\ (~RespSuccess(r) /\ ~notFound) =>
                  /\ last.out.kind = "throw"
                  /\ last.out.err.code =
                        (IF RespRpcError(r) THEN Some(r.json.error.code)
                                            ELSE None)

C1_Witness ==
    /\ last.op = "pageExists"
    /\ RespRpcError(last.resp)
    /\ last.resp.json.error.code = 121
    /\ last.tout.kind = "throw"
    /\ last.out = Return("false")

\* C2: a success-status response whose body has an error object makes the
\* transport's call fail with that code and a message containing the
\* error's message, whatever the result field and also for code 0.
C2_RpcErrorRaised ==
    (last.op # "none" /\ RespRpcError(last.resp)) =>
        /\ last.tout.kind = "throw"
        /\ last.tout.err.code = Some(last.resp.json.error.code)
        /\ Includes(last.tout.err.message, last.resp.json.error.message)
        /\ last.tout.value = "undefined"

C2_Witness ==
    /\ last.op = "transport.call"
    /\ RespRpcError(last.resp)
    /\ last.resp.json.error.code = 0
    /\ last.resp.json.result = "\"Test Wiki\""
    /\ last.out.kind = "throw"

\* C3: a success-status response without an error object makes the
\* transport's call and the facade's call return the result field as it is.
C3_ResultVerbatim ==
    (last.op # "none" /\ RespSuccess(last.resp)) =>
        /\ last.tout = Return(last.resp.json.result)
        /\ last.op \in {"transport.call", "call"} =>
              last.out = Return(last.resp.json.result)

C3_Witness ==
    /\ last.op = "call"
    /\ RespSuccess(last.resp)
    /\ last.resp.json.result = "\"\""
    /\ last.out = Return("\"\"")

\* C4: a response with non-success status makes the transport's call fail
\* with a message containing 'HTTP error <status>' and the body text; no
\* result is returned and no code is taken from the body.
C4_HttpErrorRaised ==
    (last.op # "none" /\ RespHttpError(last.resp)) =>
        /\ last.tout.kind = "throw"
        /\ Includes(last.tout.err.message,
                    <<"HTTP error ", ToString(last.resp.status)>>)
        /\ Includes(last.tout.err.message, last.resp.text)
        /\ last.tout.err.message =
              <<"DokuWiki", " API error", " calling ", last.sent.method, ": ",
                "HTTP error ", ToString(last.resp.status), ": ">>
              \o last.resp.text
        /\ last.tout.err.code = None

C4_Witness ==
    /\ last.op = "transport.call"
    /\ RespHttpError(last.resp)
    /\ last.resp.status = 404
    /\ last.resp.text = <<"Not Found">>
    /\ last.out.kind = "throw"

\* C5: when fetch fails without a response, the transport's call fails with
\* an error without a code whose message contains the failure's message.
C5_NetworkErrorRaised ==
    (last.op # "none" /\ last.resp.kind = "reject") =>
        /\ last.tout.kind = "throw"
        /\ last.tout.err.code = None
        /\ Includes(last.tout.err.message, last.resp.text)

C5_Witness ==
    /\ last.op = "transport.call"
    /\ last.resp.kind = "reject"
    /\ last.resp.text = <<"Network error">>
    /\ last.out.kind = "throw"

C7_FacadeCall ==
    last.op = "call" =>
        /\ last.sent.method = last.method
        /\ last.sent.params = last.params
        /\ last.tout.kind = "return" => last.out = last.tout
        /\ last.tout.kind = "throw" =>
              LET e == handleApiError(last.tout.err)
                  s == getRecoverySuggestion(e)
              IN  /\ last.out.kind = "throw"
                  /\ last.out.err.code = e.code
                  /\ last.out.err.originalMessage = e.originalMessage
                  /\ s = None => last.out.err.message = e.message
                  /\ s # None =>
                        last.out.err.message =
                            e.message
                            \o <<"\n\n", "Possible solution:", " ">> \o The(s)
                  /\ Includes(last.out.err.message, <<"Possible solution:">>)
                        <=> s # None

C7_Witness ==
    /\ last.op = "call"
    /\ last.params # {}
    /\ last.tout.kind = "throw"
    /\ last.tout.err.code = Some(500)
    /\ Includes(last.out.err.message, <<"Possible solution:">>)

\* C8: for every code of the description table and every message,
\* handleApiError returns a message containing the code's description and
\* '(Code: <code>)', and the same code.
C8_TableCodeEnriched ==
    (errOut # None /\ errIn.code # None /\ The(errIn.code) \in TableCodes) =>
        LET c == The(errIn.code)
            out == The(errOut)
        IN  /\ Includes(out.message, ERROR_MESSAGES[c])
            /\ Includes(out.message, <<" (Code: ", ToString(c), ")">>)
            /\ out.code = errIn.code

\* C9: for every error without a code or with a code that is not in the
\* description table, handleApiError returns the same message and the same
\* code (absent stays absent).
C9_UnmappedUnchanged ==
    (errOut # None
     /\ (errIn.code = None \/ The(errIn.code) \notin TableCodes)) =>
        /\ The(errOut).message = errIn.message
        /\ The(errOut).code = errIn.code

C9_Witness ==
    /\ errOut # None
    /\ errIn.code = Some(9999)
    /\ errIn.message = <<"Test error">>
    /\ The(errOut).code = Some(9999)

\* C10: for every error with a code of the description table whose message
\* m is not empty and not contained in '<description> (Code: <code>)',
\* handleApiError returns '<description> (Code: <code>) - m'.
C10_OriginalPreserved ==
    (errOut # None /\ errIn.code # None /\ The(errIn.code) \in TableCodes
     /\ errIn.message # <<>>
     /\ ~Includes(FriendlyMessage(The(errIn.code)), errIn.message)) =>
        The(errOut).message =
            FriendlyMessage(The(errIn.code)) \o <<" - ">> \o errIn.message

\* The code is one of the listed matches or lies in one of the ranges.
ListedCode(c) ==
    \/ c \in {401, 403, 111, 212, 133}
    \/ c >= 1000 /\ c < 2000
    \/ c >= 500 /\ c < 600

AuthPhrase(error) == Includes(error.message, <<"Authentication failed">>)

\* C11 (as claimed): getRecoverySuggestion returns null if and only if the
\* code is absent or outside all listed matches and ranges, whatever the
\* message.
C11_NullIffUnlisted ==
    sugOut # None =>
        ((The(sugOut) = None) <=>
            (errIn.code = None \/ ~ListedCode(The(errIn.code))))

\* C11 (amended): getRecoverySuggestion returns null if and only if the code
\* is absent, or the code is outside all listed matches and ranges and
\* either is 0 or the message does not contain 'Authentication failed'.
C11_NullIffUnlistedAndNoPhrase ==
    sugOut # None =>
        ((The(sugOut) = None) <=>
            \/ errIn.code = None
            \/ /\ ~ListedCode(The(errIn.code))
               /\ The(errIn.code) = 0 \/ ~AuthPhrase(errIn))

C11_Witness ==
    /\ sugOut # None
    /\ errIn.code = Some(9999)
    /\ errIn.message = <<"Test error">>
    /\ The(sugOut) = None

\* C12 (as claimed): getRecoverySuggestion returns the credentials
\* suggestion for every error with code 401 and for every error whose
\* message contains 'Authentication failed', with or without a code.
C12_AuthSuggestionAlways ==
    (sugOut # None /\ (errIn.code = Some(401) \/ AuthPhrase(errIn))) =>
        The(sugOut) = Some(AuthSuggestion)

\* C12 (amended): getRecoverySuggestion returns the credentials suggestion
\* for every error with code 401 and for every error that carries a code
\* other than 0 and whose message contains 'Authentication failed'.
C12_AuthSuggestionWithCode ==
    (sugOut # None
     /\ \/ errIn.code = Some(401)
        \/ errIn.code # None /\ errIn.code # Some(0) /\ AuthPhrase(errIn)) =>
        The(sugOut) = Some(AuthSuggestion)

C12_Witness ==
    /\ sugOut # None
    /\ errIn.code = Some(121)
    /\ AuthPhrase(errIn)
    /\ The(sugOut) = Some(AuthSuggestion)

\* The suggestion of the class of code c, for the classes other than 401.
ClassSuggestion(c) ==
    IF c \in {403, 111, 212} THEN Some(PermissionSuggestion)
    ELSE IF c >= 1000 /\ c < 2000 THEN Some(ConnectionSuggestion)
    ELSE IF c = 133 THEN Some(LockedSuggestion)
    ELSE Some(ServerSuggestion)

\* C13 (as claimed): for every error with a code in {403, 111, 212},
\* [1000, 2000), {133} or [500, 600), getRecoverySuggestion returns the
\* suggestion of that class, whatever the message.
C13_ClassSuggestionAnyMessage ==
    (sugOut # None /\ errIn.code # None
     /\ ListedCode(The(errIn.code)) /\ The(errIn.code) # 401) =>
        The(sugOut) = ClassSuggestion(The(errIn.code))

\* C13 (amended): for every error with such a code whose message does not
\* contain 'Authentication failed', getRecoverySuggestion returns the
\* suggestion of the code's class; when the message contains that phrase
\* it returns the credentials suggestion instead.
C13_ClassSuggestionNoPhrase ==
    (sugOut # None /\ errIn.code # None
     /\ ListedCode(The(errIn.code)) /\ The(errIn.code) # 401) =>
        The(sugOut) = (IF AuthPhrase(errIn)
                       THEN Some(AuthSuggestion)
                       ELSE ClassSuggestion(The(errIn.code)))

C13_Witness ==
    /\ sugOut # None
    /\ errIn.code = Some(1999)
    /\ ~AuthPhrase(errIn)
    /\ The(sugOut) = Some(ConnectionSuggestion)

\* The settings pass every validation of getAuthHeaders.
ValidSettings(settings) ==
    /\ settings # None
    /\ ~Missing(The(settings).wikiUrl)
    /\ ~MissingMethod(The(settings).authMethod)
    /\ ~Missing(The(settings).password)
    /\ The(The(settings).authMethod) \in {"BASIC_AUTH", "BEARER_TOKEN"}
    /\ The(The(settings).authMethod) = "BASIC_AUTH" =>
          ~Missing(The(settings).username)

\* The Authorization value the settings call for.
ExpectedAuthorization(s) ==
    IF The(s.authMethod) = "BASIC_AUTH"
    THEN LET str == The(s.username) \o <<":">> \o The(s.password)
         IN  <<"Basic ">>
             \o Base64Encode([i \in 1..Len(str) |-> CharCode(str[i])])
    ELSE <<"Bearer ">> \o The(s.password)

\* C14: for every valid settings record getAuthHeaders returns exactly the
\* two headers Content-Type: application/json and Authorization, the latter
\* 'Basic ' + base64(username:password) or 'Bearer ' + password (whatever the
\* username).
C14_TwoHeaders ==
    (hdrOut # None /\ ValidSettings(setIn)) =>
        /\ The(hdrOut).kind = "return"
        /\ The(hdrOut).headers =
              {<<"Content-Type", <<"application/json">>>>,
               <<"Authorization", ExpectedAuthorization(The(setIn))>>}

\* The message of the first validation that fails, in the claimed order.
ExpectedValidationMessage(settings) ==
    IF settings = None THEN <<"User settings are required">>
    ELSE IF Missing(The(settings).wikiUrl)
        THEN <<"DokuWiki", " URL is required in settings">>
    ELSE IF MissingMethod(The(settings).authMethod)
        THEN <<"Authentication method is required in settings">>
    ELSE IF Missing(The(settings).password)
        THEN <<"Password/Token is required in settings">>
    ELSE IF The(The(settings).authMethod) = "BASIC_AUTH"
        THEN <<"Username is required for Basic Authentication">>
    ELSE <<"Unsupported authentication method: ",
           The(The(settings).authMethod),
           ". Use BASIC_AUTH or BEARER_TOKEN.">>

\* C15: getAuthHeaders fails exactly when a validation fails (settings,
\* wikiUrl, authMethod, password, username under BASIC_AUTH, unsupported
\* method), its error names the first failing one in that order, and it
\* succeeds for every other settings record.
C15_FailsExactlyWhenInvalid ==
    hdrOut # None =>
        /\ (The(hdrOut).kind = "throw") <=> ~ValidSettings(setIn)
        /\ ~ValidSettings(setIn) =>
              The(hdrOut).err.message = ExpectedValidationMessage(setIn)
        /\ The(hdrOut).kind = "throw" => The(hdrOut).headers = {}

\* Every character of the credentials is at most U+00FF.
EncodableSettings(settings) ==
    (ValidSettings(settings)
     /\ The(The(settings).authMethod) = "BASIC_AUTH") =>
        BtoaAccepts(The(The(settings).username) \o <<":">>
                    \o The(The(settings).password))

\* Both header properties hold of the settings whose credentials btoa
\* accepts.
AuthHeadersWhenEncodable ==
    EncodableSettings(setIn) =>
        C14_TwoHeaders /\ C15_FailsExactlyWhenInvalid

\* The wikiUrl without its trailing slash, if it has one.
Trimmed(wikiUrl) ==
    IF EndsWithSlash(wikiUrl) THEN SubSeq(wikiUrl, 1, Len(wikiUrl) - 1)
    ELSE wikiUrl

\* The requests issued so far that the state still records.
SentRequests ==
    {calls[i].sent : i \in {j \in Slots : calls[j].pc = "awaiting"}}
    \cup (IF last.op # "none" THEN {last.sent} ELSE {})
    \cup (IF ctor.probes > 0 THEN {ctor.probeSent} ELSE {})
    \cup (IF ctor.opSent.method # "" THEN {ctor.opSent} ELSE {})

\* C16: for every wikiUrl u that does not end with '/', the clients built
\* from u and from u + '/' send every request to u + '/lib/exe/jsonrpc.php';
\* the join never doubles the slash and never omits it.
C16_EndpointNormalized ==
    (ctor.transport # None
     /\ ~EndsWithSlash(Trimmed(The(The(ctor.settings).wikiUrl)))) =>
        LET u == Trimmed(The(The(ctor.settings).wikiUrl))
            target == u \o <<"/", "lib/exe/jsonrpc.php">>
        IN  /\ The(ctor.transport).baseUrl = target
            /\ ~Includes(The(ctor.transport).baseUrl, <<"/", "/">>)
            /\ \A q \in SentRequests : q.url = target

\* A client built from a wikiUrl with a trailing slash has settled a call.
C16_Witness ==
    /\ ctor.transport # None
    /\ EndsWithSlash(The(The(ctor.settings).wikiUrl))
    /\ ctor.probes = 1
    /\ last.op = "call"

\* C17: for every settings record that getAuthHeaders rejects (settings
\* absent, wikiUrl absent or empty, authMethod absent, password absent,
\* username absent under BASIC_AUTH, unsupported authMethod),
\* createJsonRpcClient fails with that same validation error and returns no
\* client object.
C17_ValidatesLikeGetAuthHeaders ==
    (ctor.entry = "createJsonRpcClient" /\ ctor.pc # "start"
     /\ ~ValidSettings(ctor.settings)) =>
        /\ ctor.pc = "failed"
        /\ ctor.result.kind = "throw"
        /\ ctor.result.err.message = ExpectedValidationMessage(ctor.settings)
        /\ ctor.result.err = getAuthHeaders(ctor.settings).err
        /\ ctor.transport = None
        /\ client = None

\* The same holds of every settings record that has a wikiUrl property.
CreateValidatesWhenUrlGiven ==
    (ctor.settings # None => The(ctor.settings).wikiUrl # None) =>
        C17_ValidatesLikeGetAuthHeaders

\* C18: in every execution of createJsonRpcClient, createApiClient (with
\* or without the probe) or manage_dokuwiki started with settings that fail
\* validation, no outbound HTTP request is ever issued.
C18_NoRequestOnInvalidSettings ==
    ~ValidSettings(ctor.settings) =>
        /\ ctor.posts = 0
        /\ ctor.pc \in {"start", "failed"}
        /\ SentRequests = {}
        /\ client = None

\* manage_dokuwiki with a supported operation and invalid settings has
\* failed.
C18_Witness ==
    /\ ~ValidSettings(ctor.settings)
    /\ ctor.entry = "manage_dokuwiki"
    /\ ctor.pc = "failed"
    /\ ctor.params # None
    /\ The(ctor.params).operation = Some("get_page")
    /\ The(ctor.params).pageId = Some("start")

\* C19: testConnection invokes client.call('core.getWikiTitle') exactly
\* once and nothing else; if the call succeeds it returns true whatever the
\* result value; if it fails it raises a new error whose message is
\* 'Failed to connect to DokuWiki: ' followed by the underlying message and
\* which carries no code, whatever code the underlying failure carried.
C19_Probe ==
    ctor.probes > 0 =>
        /\ ctor.probeSent.method = "core.getWikiTitle"
        /\ ctor.probeSent.params = {}
        /\ ctor.probeSent.httpMethod = "POST"
        /\ ctor.posts = 1 + (IF ctor.opSent.method # "" THEN 1 ELSE 0)
        /\ ctor.pc # "probing" =>
              LET t == TransportCall("core.getWikiTitle", ctor.probeResp)
              IN  /\ RespSuccess(ctor.probeResp) =>
                        ctor.probeOut = Return("true")
                  /\ ~RespSuccess(ctor.probeResp) =>
                        /\ ctor.probeOut.kind = "throw"
                        /\ ctor.probeOut.err.message =
                              <<"Failed to connect to ", "DokuWiki", ": ">>
                              \o t.err.message
                        /\ ctor.probeOut.err.code = None

\* The probe has failed on a JSON-RPC error that carries a code.
C19_Witness ==
    /\ ctor.probes = 1
    /\ ctor.pc = "failed"
    /\ RespRpcError(ctor.probeResp)
    /\ ctor.probeResp.json.error.code = 401
    /\ ctor.probeOut.kind = "throw"

\* The probe has succeeded on a null result.
C19_WitnessSuccess ==
    /\ ctor.probes = 1
    /\ ctor.pc = "ready"
    /\ RespSuccess(ctor.probeResp)
    /\ ctor.probeResp.json.result = "null"

\* C20: createApiClient(settings, testConnection): when testConnection is
\* true the probe runs exactly once, after the transport is built and
\* before the client is returned, and the client is returned only if the
\* probe succeeded; when testConnection is false no probe and no RPC is
\* issued during construction.  After construction no facade operation
\* issues the probe again.
C20_ProbeOnceAtConstruction ==
    ctor.entry = "createApiClient" =>
        /\ ctor.probes <= 1
        /\ ctor.probes = 1 => ctor.test /\ ctor.transport # None
        /\ ctor.pc = "probing" => ctor.probes = 1 /\ client = None
        /\ client # None =>
              /\ ctor.pc = "ready"
              /\ client = ctor.transport
              /\ ctor.test =>
                    /\ ctor.probes = 1
                    /\ RespSuccess(ctor.probeResp)
                    /\ ctor.probeOut = Return("true")
        /\ (ctor.probes = 1 /\ ctor.pc # "probing"
            /\ ~RespSuccess(ctor.probeResp)) =>
              ctor.pc = "failed" /\ client = None
        /\ ctor.posts = ctor.probes
        /\ ~ctor.test => ctor.probes = 0

\* A client built with the probe has settled a facade call of the probe's
\* method.
C20_Witness ==
    /\ ctor.entry = "createApiClient"
    /\ ctor.test
    /\ client # None
    /\ last.op = "call"
    /\ last.sent.method = "core.getWikiTitle"

\* A client built without the probe has settled a facade call.
C20_WitnessNoProbe ==
    /\ ctor.entry = "createApiClient"
    /\ ~ctor.test
    /\ client # None
    /\ last.op = "pageExists"

\* What made createApiClient fail: the error of createJsonRpcClient or,
\* if the transport was built, the error of testConnection.
InitCause ==
    IF ctor.transport = None THEN createJsonRpcClient(ctor.settings).err
    ELSE ctor.probeOut.err

\* C21: every failure of createApiClient is re-raised with message
\* 'Failed to initialize DokuWiki client: <cause message>' if and only if
\* the cause message does not already contain 'DokuWiki'; otherwise the
\* cause message is left exactly as it was.
C21_InitPrefix ==
    (ctor.entry = "createApiClient" /\ ctor.pc = "failed") =>
        /\ ctor.result.kind = "throw"
        /\ ctor.result.err.code = InitCause.code
        /\ ctor.result.err.message =
              (IF Includes(InitCause.message, <<"DokuWiki">>)
               THEN InitCause.message
               ELSE <<"Failed to initialize ", "DokuWiki", " client: ">>
                    \o InitCause.message)

\* createApiClient has failed on absent settings: the prefix is added.
C21_Witness ==
    /\ ctor.entry = "createApiClient"
    /\ ctor.pc = "failed"
    /\ ctor.settings = None
    /\ ctor.result.err.message =
          <<"Failed to initialize ", "DokuWiki", " client: ",
            "User settings are required">>

\* createApiClient has failed on the probe: the message is left as it was.
C21_WitnessUnchanged ==
    /\ ctor.entry = "createApiClient"
    /\ ctor.pc = "failed"
    /\ ctor.probes = 1
    /\ ctor.result.err.message = ctor.probeOut.err.message

\* The calls of getWikiInfo whose fetch has settled.
InfoSettled == IF info.pc = "idle" THEN {} ELSE (1..3) \ info.pending

\* C22: getWikiInfo issues exactly three calls, core.getWikiTitle,
\* core.getWikiVersion and core.getAPIVersion, all started before any of
\* them is awaited; for every order in which the three responses arrive it
\* returns {title, version, apiVersion} where each field is the result of
\* its own method's call; if any one of the three fails the whole operation
\* fails with the enriched error of a failing call and no partial result is
\* returned.
C22_WikiInfo ==
    /\ info.pc = "idle" => info.posts = 0
    /\ info.pc # "idle" =>
          /\ info.posts = 3
          /\ Len(info.sent) = 3
          /\ info.sent[1].method = "core.getWikiTitle"
          /\ info.sent[2].method = "core.getWikiVersion"
          /\ info.sent[3].method = "core.getAPIVersion"
          /\ \A k \in 1..3 : info.sent[k].params = {}
    /\ (info.pc # "idle"
        /\ \A k \in InfoSettled : RespSuccess(info.resp[k])) =>
          IF info.pending = {}
          THEN /\ info.pc = "settled"
               /\ info.out.kind = "return"
               /\ info.out.value =
                     [title      |-> info.resp[1].json.result,
                      version    |-> info.resp[2].json.result,
                      apiVersion |-> info.resp[3].json.result]
          ELSE info.pc = "awaiting"
    /\ (\E k \in InfoSettled : ~RespSuccess(info.resp[k])) =>
          /\ info.pc = "settled"
          /\ info.out.kind = "throw"
          /\ info.out.value = NoWikiInfo
          /\ \E k \in InfoSettled :
                /\ ~RespSuccess(info.resp[k])
                /\ info.out.err =
                      FacadeCatch(
                          TransportCall(info.sent[k].method,
                                        info.resp[k]).err)

\* The responses arrived in the order apiVersion, title, version, and
\* getWikiInfo returned a title that differs from the version.
C22_Witness ==
    /\ info.order = <<3, 1, 2>>
    /\ info.out.kind = "return"
    /\ info.out.value.title = "\"Test Wiki\""
    /\ info.out.value.version = "null"

\* getWikiInfo failed on its second call while the third was in flight.
C22_WitnessFailed ==
    /\ info.order = <<1, 2>>
    /\ info.pending = {3}
    /\ info.out.kind = "throw"
    /\ info.out.err.code = Some(401)

\* Every request issued so far by an operation of the client.
ClientRequests ==
    SentRequests
    \cup (IF info.pc = "idle" THEN {} ELSE {info.sent[k] : k \in 1..3})

\* C23: for any sequence and interleaving of call, pageExists, mediaExists
\* and getWikiInfo on one constructed client, every outbound request is a
\* POST to the endpoint derived at construction and carries the header set
\* derived at construction; no operation changes the client's endpoint or
\* headers, and concurrent calls each resolve with the outcome of their own
\* response.
C23_ClientUnchanged ==
    (ctor.entry = "createApiClient" /\ client # None) =>
        LET wikiUrl == The(The(ctor.settings).wikiUrl)
            endpoint == Trimmed(wikiUrl) \o <<"/", "lib/exe/jsonrpc.php">>
            headers == getAuthHeaders(ctor.settings).headers
        IN  /\ The(client).baseUrl = endpoint
            /\ The(client).headers = headers
            /\ \A q \in ClientRequests :
                  /\ q.httpMethod = "POST"
                  /\ q.url = endpoint
                  /\ q.headers = headers
            /\ last.op # "none" =>
                  /\ last.tout = TransportCall(last.sent.method, last.resp)
                  /\ RespSuccess(last.resp) =>
                        last.tout = Return(last.resp.json.result)
                  /\ ~RespSuccess(last.resp) => last.tout.kind = "throw"
            /\ \A k \in InfoSettled :
                  /\ RespSuccess(info.resp[k]) =>
                        info.settled[k] = Return(info.resp[k].json.result)
                  /\ ~RespSuccess(info.resp[k]) =>
                        info.settled[k].kind = "throw"

\* A call is in flight while getWikiInfo has one call settled and two in
\* flight, after a mediaExists has failed.
C23_Witness ==
    /\ client # None
    /\ \E i \in Slots : calls[i].pc = "awaiting" /\ calls[i].op = "call"
    /\ info.pc = "awaiting"
    /\ info.pending = {1, 3}
    /\ last.op = "mediaExists"
    /\ last.out.kind = "throw"

\* manage_dokuwiki has issued its operation's RPC and the RPC has settled.
OperationSettled ==
    /\ ctor.entry = "manage_dokuwiki"
    /\ ctor.pc \in {"done", "failed"}
    /\ ctor.opSent.method # ""

\* The operation manage_dokuwiki was asked for.
Operation == The(The(ctor.params).operation)

\* C24: get_page returns the empty string when core.getPage fails with code
\* 121 and raises on every other failure; for each of the other ten
\* operations every failure of its RPC, including one with code 121, is
\* raised to the caller as an error carrying the same code, never converted
\* into a successful result.
C24_RouterFailures ==
    OperationSettled =>
        LET r == ctor.opResp
        IN  /\ RespSuccess(r) => ctor.pc = "done"
            /\ ~RespSuccess(r) =>
                  IF /\ Operation = "get_page"
                     /\ RespRpcError(r)
                     /\ r.json.error.code = 121
                  THEN ctor.pc = "done" /\ ctor.result = Return("\"\"")
                  ELSE /\ ctor.pc = "failed"
                       /\ ctor.result.kind = "throw"
                       /\ ctor.result.err.code =
                             (IF RespRpcError(r)
                              THEN Some(r.json.error.code)
                              ELSE None)

\* get_page_info has failed with code 121 and the caller got an error with
\* code 121.
C24_Witness ==
    /\ OperationSettled
    /\ Operation = "get_page_info"
    /\ RespRpcError(ctor.opResp)
    /\ ctor.opResp.json.error.code = 121
    /\ ctor.result.kind = "throw"
    /\ ctor.result.err.code = Some(121)

\* get_page has failed with code 121 and the caller got the empty string.
C24_WitnessGetPage ==
    /\ OperationSettled
    /\ Operation = "get_page"
    /\ RespRpcError(ctor.opResp)
    /\ ctor.opResp.json.error.code = 121
    /\ ctor.result = Return("\"\"")

\* How often the token occurs in the text.
Count(text, token) == Cardinality({i \in 1..Len(text) : text[i] = token})

\* The text ends with the block that carries the suggestion.
EndsWithSuggestion(text, suggestion) ==
    LET block == <<"\n\n", "Possible solution:", " ">> \o suggestion
    IN  /\ Len(text) >= Len(block)
        /\ SubSeq(text, Len(text) - Len(block) + 1, Len(text)) = block

\* C25: for every failure that reaches the caller of manage_dokuwiki the
\* final message consists of the enriched text, optionally followed by a
\* single 'Possible solution: <suggestion>' block at the very end: the text
\* 'Possible solution:' occurs at most once in the message, for every error
\* code, mapped or unmapped.
C25_SingleSuggestion ==
    (ctor.entry = "manage_dokuwiki" /\ ctor.pc = "failed") =>
        LET final == ctor.result.err
        IN  /\ Count(final.message, "Possible solution:") <= 1
            /\ Count(final.message, "Possible solution:") = 1 =>
                  \E g \in {AuthSuggestion, PermissionSuggestion,
                            ConnectionSuggestion, LockedSuggestion,
                            ServerSuggestion} :
                      EndsWithSuggestion(final.message, g)

\* The same holds of every failure whose code has a table entry or none.
SingleSuggestionWhenMapped ==
    (ctor.entry = "manage_dokuwiki" /\ ctor.pc = "failed"
     /\ (ctor.result.err.code = None
         \/ The(ctor.result.err.code) \in TableCodes)) =>
        C25_SingleSuggestion

\* How often the phrase occurs in the text.
Occurrences(text, phrase) ==
    Cardinality({i \in 1..(Len(text) - Len(phrase) + 1) :
                    SubSeq(text, i, i + Len(phrase) - 1) = phrase})

ContextPrefix(method) ==
    <<"DokuWiki", " API error", " calling ", method, ": ">>

\* The text the server, the HTTP layer or fetch supplied for the failure.
FailureText(r) == IF RespRpcError(r) THEN r.json.error.message ELSE r.text

\* C26: for every failing Transport.call(method, ...), whatever the failure
\* kind and whatever text the server or HTTP layer put in the message, the
\* raised error's message identifies the failing method name, and the
\* context prefix 'DokuWiki API error calling <method>: ' occurs exactly
\* once in it.
C26_ContextOnce ==
    (last.op # "none" /\ last.tout.kind = "throw") =>
        /\ Includes(last.tout.err.message, <<last.sent.method>>)
        /\ Occurrences(last.tout.err.message,
                       ContextPrefix(last.sent.method)) = 1

\* The same holds of every failure whose text does not contain
\* 'DokuWiki API error'.
ContextOnceWhenAbsent ==
    (last.op # "none"
     /\ ~Includes(FailureText(last.resp), <<"DokuWiki", " API error">>)) =>
        C26_ContextOnce

\* The RPC method fixed by each operation name.
OperationMethod ==
    [o \in {"get_page", "save_page", "append_page", "list_pages",
            "search_pages", "get_page_info", "get_page_history",
            "list_media", "get_media", "save_media", "delete_media"} |->
        CASE o = "get_page"         -> "core.getPage"
          [] o = "save_page"        -> "core.savePage"
          [] o = "append_page"      -> "core.appendPage"
          [] o = "list_pages"       -> "core.listPages"
          [] o = "search_pages"     -> "core.searchPages"
          [] o = "get_page_info"    -> "core.getPageInfo"
          [] o = "get_page_history" -> "core.getPageHistory"
          [] o = "list_media"       -> "core.listMedia"
          [] o = "get_media"        -> "core.getMedia"
          [] o = "save_media"       -> "core.saveMedia"
          [] o = "delete_media"     -> "core.deleteMedia"]

\* The params name an operation.
OperationGiven == ctor.params # None /\ ~Empty(The(ctor.params).operation)

\* The params carry what the operation requires: the page or media id, the
\* content to write, the text to search for.
RequiredGiven ==
    LET p == The(ctor.params)
        o == Operation
    IN  CASE o \in {"get_page", "get_page_info", "get_page_history"} ->
                 ~Empty(p.pageId)
          [] o = "save_page" -> ~Empty(p.pageId) /\ p.content # None
          [] o = "append_page" -> ~Empty(p.pageId) /\ ~Empty(p.content)
          [] o = "search_pages" -> ~Empty(p.query) \/ ~Empty(p.searchQuery)
          [] o \in {"get_media", "delete_media"} -> ~Empty(p.mediaId)
          [] o = "save_media" ->
                 /\ ~Empty(p.mediaId)
                 /\ ~Empty(p.base64_content) \/ ~Empty(p.content)
          [] OTHER -> TRUE

\* The probe of manage_dokuwiki's client has settled and has succeeded.
ProbeSucceeded ==
    ctor.probes = 1 /\ ctor.pc # "probing" /\ RespSuccess(ctor.probeResp)

\* C27: for each of the eleven supported operations invoked through
\* manage_dokuwiki with its required parameters and valid settings, exactly
\* one operation RPC is issued, to the method fixed by the operation name,
\* and it is issued strictly after the construction probe has succeeded; if
\* construction or the probe fails, no operation RPC is issued.
C27_OneOperationRpc ==
    ctor.entry = "manage_dokuwiki" =>
        /\ ctor.posts <= 2
        /\ ctor.opSent.method # "" =>
              /\ ProbeSucceeded
              /\ ctor.posts = 2
              /\ Operation \in DOMAIN OperationMethod
              /\ ctor.opSent.method = OperationMethod[Operation]
              /\ ctor.opSent.httpMethod = "POST"
        /\ (ctor.pc \in {"failed", "done"} /\ ~ProbeSucceeded) =>
              /\ ctor.opSent.method = ""
              /\ ctor.posts = ctor.probes
              /\ ctor.pc = "failed"
        /\ (/\ ProbeSucceeded
            /\ OperationGiven
            /\ Operation \in DOMAIN OperationMethod
            /\ RequiredGiven) =>
              /\ ctor.pc \in {"operating", "done", "failed"}
              /\ ctor.opSent.method = OperationMethod[Operation]
              /\ ctor.posts = 2

\* save_media has returned after its one RPC.
C27_Witness ==
    /\ ctor.entry = "manage_dokuwiki"
    /\ ctor.pc = "done"
    /\ Operation = "save_media"
    /\ ctor.opSent.method = "core.saveMedia"
    /\ ctor.posts = 2

\* The request is invalid: no operation, an unsupported operation, or a
\* required parameter is missing.
InvalidRequest ==
    \/ ~OperationGiven
    \/ Operation \notin DOMAIN OperationMethod
    \/ ~RequiredGiven

\* The error the request's validation raises.
RequestError ==
    IF ~OperationGiven THEN <<"Operation parameter is required">>
    ELSE IF Operation \notin DOMAIN OperationMethod
        THEN <<"Unsupported operation: ", Operation>>
    ELSE Route(The(ctor.params), ctor.settings).err.message

\* C28: an invocation of manage_dokuwiki whose operation is missing, whose
\* operation name is not one of the eleven supported ones, or which lacks a
\* parameter required by its operation fails with the corresponding
\* 'required' / 'Unsupported operation' error without any outbound HTTP
\* request having been issued.
C28_ValidationBeforeNetwork ==
    (ctor.entry = "manage_dokuwiki" /\ ctor.pc # "start"
     /\ InvalidRequest) =>
        /\ ctor.pc = "failed"
        /\ ctor.posts = 0
        /\ ctor.result.err.message = RequestError

\* The same holds of the invocations without an operation.
ValidationBeforeNetworkWhenNoOperation ==
    ~OperationGiven => C28_ValidationBeforeNetwork

\* An invalid request fails with its validation error once the client has
\* been built and probed.
ValidationAfterProbe ==
    (ctor.entry = "manage_dokuwiki" /\ InvalidRequest /\ ProbeSucceeded) =>
        /\ ctor.pc = "failed"
        /\ ctor.posts = 1
        /\ ctor.result.err.message = RequestError

\* The error object the facade's catch block throws.
Raised == The(objOut).objs[The(objOut).ref]

\* C29: handleApiError and Facade.call never modify the error object they
\* caught: after Facade.call fails, the caught object has the message and
\* code it had; any description or 'Possible solution' text is put on a
\* different, new error object, and when nothing is added the very same
\* unmodified object is re-raised.
C29_ReadOnlySameObject ==
    objOut # None =>
        /\ The(objOut).objs[1] = errIn
        /\ Raised.message # errIn.message => The(objOut).ref # 1
        /\ Raised.message = errIn.message => The(objOut).ref = 1

\* C29, amended: the caught object is never modified and any added text is
\* put on a new object; the very same object is re-raised exactly when the
\* caught error has no code (absent or 0), and for every other error a new
\* object is raised, also when nothing is added to its message.
C29_ReadOnlyNewObjectOnCode ==
    objOut # None =>
        /\ The(objOut).objs[1] = errIn
        /\ Raised.message # errIn.message => The(objOut).ref # 1
        /\ The(objOut).ref = 1 <=>
              (errIn.code = None \/ errIn.code = Some(0))
        /\ The(objOut).ref = 1 => The(objOut).objs = <<errIn>>
        /\ The(objOut).ref # 1 => Raised.code = errIn.code

\* An error with a code that has neither a description nor a suggestion
\* is re-raised as a new object with the caught message.
C29_Witness ==
    /\ objOut # None
    /\ errIn.code = Some(123)
    /\ errIn.message = <<"Test error">>
    /\ The(objOut).ref = 2
    /\ Raised.message = errIn.message

\* The object thrown carries what the facade's catch block computes.
RaisedIsFacadeCatch == objOut # None => Raised = FacadeCatch(errIn)

\* The error has no code and its message has no table description, no
\* '(Code: N)' text and no 'Possible solution:' text.
Plain(error) ==
    /\ error.code = None
    /\ Count(error.message, " (Code: ") = 0
    /\ Count(error.message, "Possible solution:") = 0
    /\ \A c \in TableCodes : ~Includes(error.message, ERROR_MESSAGES[c])

\* C30: a failure that has no JSON-RPC error object never acquires a code
\* anywhere in the pipeline: for every HTTP non-success status (including
\* 401, 403 and 5xx) and every network failure, the error that Facade.call
\* and manage_dokuwiki raise carries no code, its message contains no table
\* description and no '(Code: N)' text, and no 'Possible solution:' text is
\* appended to it.
C30_NoCodeAcquired ==
    /\ (last.op \in {"call", "pageExists", "mediaExists"}
        /\ ~RespParsed(last.resp)) =>
          /\ last.out.kind = "throw"
          /\ Plain(last.out.err)
          /\ last.out.err.message = last.tout.err.message
    /\ (OperationSettled /\ ~RespParsed(ctor.opResp)) =>
          /\ ctor.result.kind = "throw"
          /\ Plain(ctor.result.err)
          /\ ctor.result.err.message =
                TransportCall(ctor.opSent.method, ctor.opResp).err.message
    /\ (ctor.entry \in {"createApiClient", "manage_dokuwiki"}
        /\ ctor.probes = 1 /\ ctor.pc = "failed"
        /\ ctor.opSent.method = ""
        /\ ~RespParsed(ctor.probeResp)) =>
          /\ ctor.result.kind = "throw"
          /\ Plain(ctor.result.err)

\* An operation of manage_dokuwiki has failed on HTTP status 401.
C30_Witness ==
    /\ OperationSettled
    /\ ctor.opResp.kind = "http"
    /\ ctor.opResp.status = 401
    /\ ctor.result.kind = "throw"

\* A facade call has failed on HTTP status 500.
C30_WitnessFacade ==
    /\ last.op = "call"
    /\ last.resp.kind = "http"
    /\ last.resp.status = 500
    /\ last.out.kind = "throw"

====
